---- MODULE Spec2Model ----
(***************************************************************************)
(* Model of the profile warm-up engine.                                    *)
(*                                                                         *)
(*   Spec         one execution of warmup_profile_task (backend/app/       *)
(*                tasks.py) together with its environment: the clock, the  *)
(*                /warmup/stop endpoint and run_warmup_direct's cleanup.   *)
(*   SpecLive     the same steps for one shipped profile, with the         *)
(*                fairness of a running thread and of an advancing clock.  *)
(*   SpecActions  the rate-limited executors of FacebookActions            *)
(*                (facebook_actions.py), called one after the other.       *)
(*   SpecSelenium browser_session of browser.py, entered by concurrent     *)
(*                threads over the semaphore of its BrowserPool.           *)
(*   SpecServer   the /warmup/start and /warmup/stop endpoints of main.py  *)
(*                with the executions of warmup_profile_task they launch   *)
(*                over the BrowserPool of playwright_browser.py.           *)
(*   SpecChoice   weighted_random_choice (human_actions.py) applied to a   *)
(*                table of action weights.                                 *)
(*   SpecPublish  broadcast_status (tasks.py) called by a task at its      *)
(*                broadcast points while Redis comes and goes.             *)
(*   SpecWarmup   one session of ProfileWarmUp.run (warmup.py).            *)
(*                                                                         *)
(* Each specification moves its own variables and leaves the others at    *)
(* their initial values.  Spec counts time in ticks of SecondsPerTick      *)
(* seconds (the profile ranges of the configuration are minutes, i.e.      *)
(* ticks); SpecActions counts it in ticks of SecondsPerClockTick seconds.  *)
(***************************************************************************)
EXTENDS Integers, Sequences, FiniteSets, TLC

\* ------------------------------------------------------------------ bounds
MaxTime == 12
MaxScrolls == 2
MaxButtons == 4
\* bound of the count of consecutive exceptions in the scrolling loop
MaxErrors == 3

\* length of the scrolling phase of SpecPace, in seconds
MaxPaceTime == 40

\* the largest max_retries start is called with
MaxRetries == 3

\* random.random() and the probabilities of the gates, in units of 1/Grain
Grain == 10

\* the characters a URL has after its origin, at most
MaxTail == 3

\* the selectors of login_selectors the model keeps
MaxSelectors == 3

\* ------------------------------------------------------- program constants
SecondsPerTick == 60
WARMUP_TIMEOUT == 600
MAX_CONCURRENT_BROWSERS == 1

\* WARM_UP_CONFIG.get('min_friend_requests'), .get('max_friend_requests')
min_friend_requests == 0
max_friend_requests == 3

\* random.random() < 0.6 in visit_friend_suggestions, in percent
SendChance == 60

\* random.random() draws a value of [0, 1); the model draws it in percent
RandomDraws == {0, 50, 99}

\* random.uniform(a, b), sampled at the two ends of the range
Uniform(a, b) == {a, b}

\* ------------------------------------- FacebookActions: program constants
SecondsPerClockTick == 30

\* src/config.py, in seconds
min_time_between_likes == 30
max_time_between_likes == 90
min_time_between_comments == 60
max_time_between_comments == 120
min_time_between_requests == 60
max_time_between_requests == 120
max_likes_per_session == 8
max_comments_per_session == 5
max_friend_requests_per_session == 3
\* in percent
like_probability == 70
comment_probability == 50

\* bound of the clock of SpecActions
MaxClock == 12

Kinds == {"like", "comment", "friend_request"}

\* a number of seconds in clock ticks
Ticks(seconds) == seconds \div SecondsPerClockTick

MaxWindow == Ticks(min_time_between_comments)

\* _can_like at time t, the cap test without its equality case
can_like_CapOffByOne(count, last, t) ==
    /\ ~(count > max_likes_per_session)
    /\ ~((t - last) * SecondsPerClockTick < min_time_between_likes)

\* _can_like at time t
can_like(count, last, t) ==
    /\ ~(count >= max_likes_per_session)
    /\ ~((t - last) * SecondsPerClockTick < min_time_between_likes)

\* _can_comment at time t
can_comment(count, last, t) ==
    /\ ~(count >= max_comments_per_session)
    /\ ~((t - last) * SecondsPerClockTick < min_time_between_comments)

\* _can_send_friend_request at time t
can_send_friend_request(count, last, t) ==
    /\ ~(count >= max_friend_requests_per_session)
    /\ ~((t - last) * SecondsPerClockTick < min_time_between_requests)

\* the time between the success recorded at t and the one before it
NewGap(count, last, t) == IF count = 0 THEN -1 ELSE t - last

\* ------------------------------------------------ browser.py: the threads
Threads == {"t1", "t2"}

\* bound of the browser_session calls of one thread
MaxSessions == 2

\* threading.Semaphore.release, without its effect
semaphore_release_Lost(count) == count

\* threading.Semaphore.release
semaphore_release(count) == count + 1

\* the threads between a successful acquire and the release
Holding == {"create", "body", "finally"}

\* -------------------------------------------------- main.py: the requests
Emails == {"a@x", "b@x"}

\* bound of the background tasks /warmup/start adds
MaxExecutions == 3

Executions == 1..MaxExecutions

\* ------------------------------------------- human_actions.py: the tables
\* some of the actions of ACTION_WEIGHTS
ActionNames == {"scroll_down", "scroll_up", "pause_reading"}

\* bound of the weight of one action
MaxWeight == 2

\* the mappings weighted_random_choice is called with, the empty one included
WeightTables == UNION {[names -> 0..MaxWeight] : names \in SUBSET ActionNames}

\* ------------------------------------------------ tasks.py: the publisher
\* bound of the calls of broadcast_status
MaxBroadcasts == 4

\* bound of the likes of the calling task
MaxTaskLikes == 2

\* the statuses the result dict of the calling task goes through
TaskStatuses == {"started", "logged_in", "login_failed", "completed", "error"}

\* ------------------------------------------------ warmup.py: the session
\* src/config.py, in minutes
min_duration_minutes == 5
max_duration_minutes == 10
\* in percent
friend_suggestions_probability == 70

\* _main_loop_for_duration(60), in seconds
InitialBrowsingSeconds == 60

\* bound of the clock of SpecWarmup
MaxWuTime == 10

\* bound of the actions one session performs
MaxActions == 2

\* bound of the scrolls one session of ProfileWarmUp performs
MaxWuScrolls == 2

\* --------------------------------------------------------- configuration
Profile(w, smin, smax, lmin, lmax, fp, ml) ==
    [weight |-> w, scroll_minutes |-> <<smin, smax>>,
     logout_delay_minutes |-> <<lmin, lmax>>,
     friend_probability |-> fp, max_likes |-> ml]

\* two of the shipped session profiles (probabilities in percent)
ShippedProfiles ==
    ("quick" :> Profile(25, 3, 5, 1, 2, 30, 3)) @@
    ("normal" :> Profile(45, 5, 10, 2, 5, 70, 6))

\* a table whose weights cannot be used for a weighted selection
ZeroWeightProfiles ==
    ("quick" :> Profile(0, 3, 5, 1, 2, 30, 3)) @@
    ("normal" :> Profile(0, 5, 10, 2, 5, 70, 6))

\* a profile with an empty scrolling phase, and one weight-0 profile
FlashProfiles ==
    ("flash" :> Profile(1, 0, 0, 0, 1, 100, 1)) @@
    ("never" :> Profile(0, 1, 1, 1, 1, 0, 0))

\* session_profiles missing or {}
NoProfiles == <<>>

ProfileTables == {ShippedProfiles, ZeroWeightProfiles, FlashProfiles, NoProfiles}

\* the shipped profile 'quick' alone
QuickProfile == "quick" :> ShippedProfiles["quick"]

\* the fallback of select_session_profile, from the fallback keys of the
\* backend configuration
DefaultProfile == Profile(25, 3, 18, 1, 7, 70, 10)

NoProfile == Profile(0, 0, 0, 0, 0, 0, 0)

VARIABLES
    session_profiles,   \* WARM_UP_CONFIG['session_profiles']
    perform_logout,     \* WARM_UP_CONFIG['perform_logout']
    now,                \* time.time(), in ticks
    pc,                 \* position of warmup_profile_task
    stats,              \* the result dict of warmup_profile_task
    profile_config,     \* the selected profile
    session_end,        \* deadline of the scrolling phase, -1 before it is set
    delay_end,          \* deadline of the pre-logout delay, -1 before it is set
    browser,            \* the session's PlaywrightBrowser: "new", "started", "stopped"
    start_time,         \* PlaywrightBrowser.start_time, -1 for None
    active_browsers,    \* browser_pool.active_browsers
    active_task,        \* email in active_tasks (main.py)
    suggestions,        \* visit_friend_suggestions: buttons, target, index, sent
    exc,                \* the exception in flight or last handled, "none" if none
    cleanups,           \* calls of browser_pool.cleanup_all() by the task's handler
    ops,                \* the operations the session has attempted so far
    stopped_in,         \* phase of the session when /warmup/stop was served, "none" if never
    expired,            \* WARMUP_TIMEOUT elapsed while the session was running
    login_result,       \* outcome of login_to_facebook, "none" before the call
    action,             \* the action selected by the current loop iteration
    indicators,         \* the failure indicators the page shows after the login click
    logout_result,      \* outcome of logout_from_facebook, "none" if not called
    loop_errors,        \* iterations of the scrolling loop ended by an exception
                        \* since the last one that was not, 0 outside the loop
    \* ---- FacebookActions (SpecActions)
    clock,                      \* time.time(), in clock ticks
    likes_count,                \* FacebookActions.likes_count
    comments_count,             \* FacebookActions.comments_count
    friend_requests_count,      \* FacebookActions.friend_requests_count
    last_like_time,             \* FacebookActions.last_like_time
    last_comment_time,          \* FacebookActions.last_comment_time
    last_friend_request_time,   \* FacebookActions.last_friend_request_time
    gap,                        \* per kind, the time between its two latest successes, -1 if fewer
    fb_call,                    \* the latest call: its kind, its outcome and
                                \* whether it issued a page interaction
    \* ---- browser.py (SpecSelenium)
    semaphore,          \* free slots of BrowserPool.semaphore
    sel_pc,             \* per thread, its position in browser_session
    sel_driver,         \* per thread, whether BrowserManager.driver is set
    sel_active,         \* BrowserPool.active_browsers, by owning thread
    acquires,           \* per thread, its successful browser_pool.acquire() calls
    releases,           \* per thread, its browser_pool.release() calls
    sessions,           \* per thread, the browser_session calls it has made
    outcomes,           \* the exit paths of browser_session taken so far
    \* ---- main.py over playwright_browser.py (SpecServer)
    active_tasks,       \* main.active_tasks: the emails with a running entry
    launched,           \* number of background tasks added by /warmup/start
    srv_pc,             \* per execution, its position
    srv_email,          \* per execution, the email it was started for
    srv_browser,        \* per execution, the state of its PlaywrightBrowser
    srv_proc,           \* per execution, whether its Chrome process is alive
    srv_pool,           \* browser_pool.active_browsers, by owning execution
    \* ---- weighted_random_choice (SpecChoice)
    action_weights,     \* the argument: a mapping from actions to weights
    choice,             \* what the call did: "pending" before it, then the
                        \* action returned or the name of the exception raised
    \* ---- broadcast_status (SpecPublish)
    redis_client,       \* tasks.redis_client: "None" or "client"
    redis_up,           \* whether the Redis server answers
    task_stats,         \* the caller's result dict: status and likes
    broadcasts,         \* calls of broadcast_status made so far
    delivered,          \* messages published to the channel
    escaped,            \* an exception has left broadcast_status
    \* ---- ProfileWarmUp (SpecWarmup)
    wu_pc,              \* position of ProfileWarmUp.run
    wu_now,             \* time.time(), in ticks
    session_start_time, \* ProfileWarmUp.session_start_time, -1 for None
    session_end_time,   \* ProfileWarmUp.session_end_time, -1 for None
    duration,           \* run: the session duration, in ticks
    original_end,       \* _main_loop_for_duration: original_end, -1 outside it
    planned_end,        \* the value session_end_time was given at the start of run
    actions_performed,  \* len(ProfileWarmUp.actions_performed)
    wu_status,          \* status of the stats returned by run, "none" before
    wu_error,           \* an exception has reached the except clause of run
    wu_scroll,          \* scroll_count of ProfileWarmUp.scroller (own) and of
                        \* FacebookActions.scroller (fb), and the scroll_count
                        \* of the stats run returns, -1 before
    \* ---- the pace of warmup_profile_task, in seconds (SpecPace)
    pace_pc,            \* "engaging", "suggestions", "requests", "returned"
    pace_now,           \* time.time(), in seconds since the scrolling loop began
    pace_stats,         \* stats: likes, liked_posts, friend_requests, friends_requested
    pace_loop,          \* the scrolling loop: likes_this_session, the like_post calls
                        \* that returned a post, the time of the last like and
                        \* the time between the two latest likes (-1 if none
                        \* and outside the loop)
    pace_friends,       \* visit_friend_suggestions: buttons, target, index,
                        \* friends_requested, the time of the last request and
                        \* the time between the two latest requests (-1 if none)
    \* ---- PlaywrightBrowser.start and stop (SpecBrowser)
    pw_pc,              \* "idle" outside start, "attempt" at the head of the
                        \* retry loop, "except" in the handler of an attempt
    pw_fields,          \* which of self.page, self.browser, self.playwright
                        \* are not None
    pw_max_retries,     \* the argument max_retries of start
    pw_attempts,        \* failed attempts of the running or last start
    pw_result,          \* start: "none" before it ends, "page", "raised"
    pw_stop,            \* the last call of stop: the resources that were not
                        \* None, those whose close was invoked, whether stop
                        \* let an exception out
    \* ---- calls of single functions (SpecGates, SpecFeed, SpecLoginButton)
    gate_call,          \* the last evaluation of a probability gate: the gate,
                        \* its probability, the draw, whether the action goes on
    feed_call,          \* the last call of ensure_on_feed: the URL, whether it
                        \* could be read, the navigations issued, the result
    login_call          \* the last submission of the login form: what each
                        \* selector finds, the button kept, click or Enter

session_vars == <<session_profiles, perform_logout, now, pc, stats,
                  profile_config, session_end, delay_end, browser, start_time,
                  active_browsers, active_task, suggestions, exc, cleanups, ops,
                  stopped_in, expired, login_result, action, loop_errors,
                  logout_result, indicators>>

fb_vars == <<clock, likes_count, comments_count, friend_requests_count,
             last_like_time, last_comment_time, last_friend_request_time, gap,
             fb_call>>

sel_vars == <<semaphore, sel_pc, sel_driver, sel_active, acquires, releases,
              sessions, outcomes>>

srv_vars == <<active_tasks, launched, srv_pc, srv_email, srv_browser, srv_proc,
              srv_pool>>

choice_vars == <<action_weights, choice>>

publish_vars == <<redis_client, redis_up, task_stats, broadcasts, delivered,
                  escaped>>

wu_vars == <<wu_pc, wu_now, session_start_time, session_end_time, duration,
             original_end, planned_end, actions_performed, wu_status, wu_error,
             wu_scroll>>

pace_vars == <<pace_pc, pace_now, pace_stats, pace_loop, pace_friends>>

pw_vars == <<pw_pc, pw_fields, pw_max_retries, pw_attempts, pw_result, pw_stop>>

\* the calls of single functions
pure_vars == <<gate_call, feed_call, login_call>>

unit_vars == <<pw_vars, pure_vars>>

\* the variables of the specifications that precede SpecBrowser
other_vars == <<session_vars, fb_vars, sel_vars, srv_vars, choice_vars,
                publish_vars, pace_vars, wu_vars>>

vars == <<session_vars, fb_vars, sel_vars, srv_vars, choice_vars, publish_vars, pace_vars, unit_vars,
          wu_vars>>

\* what no step of Spec changes: the configuration and the variables of the
\* other specifications
config_vars == <<session_profiles, perform_logout, fb_vars, sel_vars, srv_vars,
                 choice_vars, publish_vars, pace_vars, unit_vars, wu_vars>>
env_vars == <<now, active_task, stopped_in, expired>>

\* visit_friend_suggestions before its button discovery
NoRequests == [buttons |-> 0, target |-> 0, index |-> 0, friends_requested |-> <<>>,
               last_request |-> -1, request_gap |-> -1]

\* random.randint(a, b), sampled at the two ends of the range
randint(a, b) == {a, b}

\* what a successful like adds to stats, without the detail record
record_like_NoRecord(st, post) == [st EXCEPT !.likes = @ + 1]

\* lines 333-335: what a successful like adds to stats
record_like(st, post) ==
    [st EXCEPT !.likes = @ + 1, !.liked_posts = Append(@, post)]

\* _execute_action: the action is performed and recorded; if it raises, the
\* handler logs and scrolls down, and what that scroll raises is not caught
execute_action(action_raises, scroll_raises) ==
    IF ~action_raises THEN "performed"
    ELSE IF ~scroll_raises THEN "skipped"
    ELSE "raised"

\* no call of FacebookActions yet
NoCall == [kind |-> "none", outcome |-> "none", touched |-> FALSE]

\* a call that scrolls before it tests its guard
touches_page_BeforeGuard(outcome) == outcome # "skipped"

\* whether a call with this outcome has issued a page interaction: the
\* scroll, the query and the click come after the guard and the random skip
touches_page(outcome) == outcome \in {"failed", "done"}

\* the record of a call of a kind with an outcome
Call(kind, outcome) ==
    [kind |-> kind, outcome |-> outcome, touched |-> touches_page(outcome)]

\* the one browser of the one session of Spec
TheBrowser == "browser"

\* ------------------------------------------------------ pure definitions

RECURSIVE SumWeights(_, _)
SumWeights(profiles, names) ==
    IF names = {} THEN 0
    ELSE LET n == CHOOSE m \in names : TRUE
         IN  profiles[n].weight + SumWeights(profiles, names \ {n})

\* random.choices(names, weights=weights)[0]: the names it can return; the
\* empty set stands for the ValueError raised when the total weight is not
\* greater than zero
random_choices(profiles) ==
    IF SumWeights(profiles, DOMAIN profiles) <= 0 THEN {}
    ELSE {n \in DOMAIN profiles : profiles[n].weight > 0}

\* select_session_profile(): the set of (name, config) pairs it can return,
\* empty when it raises
select_session_profile(profiles) ==
    IF DOMAIN profiles = {}
    THEN {[name |-> "default", config |-> DefaultProfile]}
    ELSE {[name |-> n, config |-> profiles[n]] : n \in random_choices(profiles)}

RECURSIVE sum(_, _)
\* sum(weight_values)
sum(weights, names) ==
    IF names = {} THEN 0
    ELSE LET n == CHOOSE m \in names : TRUE
         IN  weights[n] + sum(weights, names \ {n})

\* weighted_random_choice(weights): what the call can do, a returned action
\* or the name of the exception it raises.  The probabilities w / total are
\* positive exactly for the positive weights; on the empty mapping no
\* division is made and random.choices indexes an empty list.
weighted_random_choice(weights) ==
    LET total == sum(weights, DOMAIN weights)
    IN  IF DOMAIN weights = {} THEN {"IndexError"}
        ELSE IF total = 0 THEN {"ZeroDivisionError"}
        ELSE {a \in DOMAIN weights : weights[a] > 0}

\* min(a, b)
min(a, b) == IF a < b THEN a ELSE b

\* elapsed < duration * 0.6, both in ticks
has_time_for_friends(elapsed, planned) == elapsed * 10 < planned * 6

\* redis_client.publish raising out of broadcast_status
publish_Uncaught(client, up) ==
    IF client = "None" THEN "skipped" ELSE IF up THEN "published" ELSE "raised"

\* lines 69-74 of broadcast_status: what the publish does, given the client
\* and the state of the server; an exception of json.dumps or publish is
\* caught and logged
publish(client, up) ==
    IF client = "None" THEN "skipped" ELSE IF up THEN "published" ELSE "logged"

\* PlaywrightBrowser.is_timeout() at clock value t
is_timeout(t) ==
    IF start_time = -1 THEN FALSE
    ELSE (t - start_time) * SecondsPerTick > WARMUP_TIMEOUT

\* BrowserPool.cleanup_all(): the list after the call
cleanup_all(browsers) == {}

\* an unregister_browser that leaves the list as it is
unregister_browser_Keep(browsers, b) == browsers

\* BrowserPool.unregister_browser(browser): the list after the call
unregister_browser(browsers, b) == browsers \ {b}

\* BrowserPool.register_browser(browser): the list after the call
register_browser(browsers, b) == browsers \cup {b}

\* the like guard with the comparison off by one
CanLike_OffByOne(likes_this_session, max_likes_for_session) ==
    likes_this_session <= max_likes_for_session

\* the guard of the like branch of the scrolling loop
CanLike(likes_this_session, max_likes_for_session) ==
    likes_this_session < max_likes_for_session

\* visible_buttons[:target]: the number of buttons the request loop visits
SliceLen(buttons, target) == IF buttons < target THEN buttons ELSE target

\* outcomes of login_to_facebook that are failures
LoginFailures == {"checkpoint", "two_factor", "bad_credentials",
                  "account_disabled", "exception"}

\* what the page can show after the login click: "checkpoint" in the URL,
\* a two-factor URL, the URL of the login page, the text of a disabled
\* account in the page source
Indicators == {"checkpoint", "two_factor", "login_page", "account_disabled"}

\* where login_to_facebook can raise: nowhere, before the URL is tested
\* (navigation, typing, click, reading the URL), or when the page source is
\* read after the URL tests
RaisePoints == {"nowhere", "before_checks", "page_source"}

\* login_to_facebook with the test of the page source made first
login_to_facebook_DisabledFirst(shown, raised) ==
    IF raised = "before_checks" THEN "exception"
    ELSE IF raised = "page_source" THEN "exception"
    ELSE IF "account_disabled" \in shown THEN "account_disabled"
    ELSE IF "checkpoint" \in shown THEN "checkpoint"
    ELSE IF "two_factor" \in shown THEN "two_factor"
    ELSE IF "login_page" \in shown THEN "bad_credentials"
    ELSE "success"

\* login_to_facebook: "success" or the reason of the failure, from what the
\* page shows and where an exception is raised
login_to_facebook(shown, raised) ==
    IF raised = "before_checks" THEN "exception"
    ELSE IF "checkpoint" \in shown THEN "checkpoint"
    ELSE IF "two_factor" \in shown THEN "two_factor"
    ELSE IF "login_page" \in shown THEN "bad_credentials"
    ELSE IF raised = "page_source" THEN "exception"
    ELSE IF "account_disabled" \in shown THEN "account_disabled"
    ELSE "success"

\* the login phase without the early return of a failed login
after_login_NoReturn(success) == "engaging"

\* where the task goes after the login phase
after_login(success) == IF success THEN "engaging" ELSE "finally"

\* the pre-logout loop with a condition that never turns false
\* the pre-logout loop left one clock value before its deadline
delay_running_Early(t, end) == t + 1 < end

delay_running_Forever(t, end) == TRUE

\* the condition of the pre-logout loop: time.time() < delay_end
delay_running(t, end) == t < end

\* the loop condition with the deadline itself included
\* the scrolling loop left one clock value before its deadline
before_deadline_Early(t, deadline) == t + 1 < deadline

before_deadline_Inclusive(t, deadline) == t <= deadline

\* the condition of the scrolling loop: time.time() < session_end
before_deadline(t, deadline) == t < deadline

\* the logout phase with a failed logout turned into an error
after_logout_Strict(logged_out) == IF logged_out THEN "completed" ELSE "error"

\* the status set after the logout phase: the value logout_from_facebook
\* returns is not used
after_logout(logged_out) == "completed"

\* an exception in the scrolling loop leaving the with-block
after_action_error_Raise == "handler"

\* where the task goes after an exception in an iteration of the scrolling
\* loop: the handler of the loop logs it and continues the loop
after_action_error == "engaging"

\* the friend-suggestions phase falling back into the scrolling loop
after_friend_suggestions_Loop == "engaging"

\* where the task goes once the friend-suggestions phase is over
after_friend_suggestions == "idle"

\* the phase a position belongs to, in the order of the function body
PhaseRank(p) ==
    CASE p \in {"call", "try"} -> 0
      [] p = "login" -> 1
      [] p = "engaging" -> 2
      [] p \in {"friend_gate", "friends_nav", "friends_find", "friends_loop"} -> 3
      [] p = "idle" -> 4
      [] p = "logout" -> 5
      [] OTHER -> 6

\* the name of the phase a position belongs to
PhaseName(p) ==
    CASE PhaseRank(p) = 0 -> "starting"
      [] PhaseRank(p) = 1 -> "login"
      [] PhaseRank(p) = 2 -> "engaging"
      [] PhaseRank(p) = 3 -> "friends"
      [] PhaseRank(p) = 4 -> "idle"
      [] PhaseRank(p) = 5 -> "logout"
      [] OTHER -> "terminal"

\* the positions inside the with-block of warmup_profile_task
InSession == {"login", "engaging", "friend_gate", "friends_nav",
              "friends_find", "friends_loop", "idle", "logout"}

\* the positions whose loops sleep between two checks of the clock: the
\* scrolling loop, the wait after a friend request, the pre-logout loop
Sleeping == {"engaging", "friends_loop", "idle"}

NoSuggestions == [buttons |-> 0, target |-> 0, index |-> 0, sent |-> 0]

\* ------------------------------------------------------------------ Init

\* FacebookActions.__init__, at a time when the epoch is further back than
\* any rate-limit window
FbInit ==
    /\ clock = MaxWindow
    /\ likes_count = 0
    /\ comments_count = 0
    /\ friend_requests_count = 0
    /\ last_like_time = 0
    /\ last_comment_time = 0
    /\ last_friend_request_time = 0
    /\ gap = [k \in Kinds |-> -1]
    /\ fb_call = NoCall

SessionInit(tables, logout_options) ==
    /\ session_profiles \in tables
    /\ perform_logout \in logout_options
    /\ now = 0
    /\ pc = "call"
    /\ stats = [status |-> "started", likes |-> 0, friend_requests |-> 0,
                scroll_count |-> 0, error |-> "none", session_profile |-> "none"]
    /\ profile_config = NoProfile
    /\ session_end = -1
    /\ delay_end = -1
    /\ browser = "new"
    /\ start_time = -1
    /\ active_browsers = {}
    /\ active_task = TRUE
    /\ suggestions = NoSuggestions
    /\ exc = "none"
    /\ cleanups = 0
    /\ ops = {}
    /\ stopped_in = "none"
    /\ expired = FALSE
    /\ login_result = "none"
    /\ action = "none"
    /\ loop_errors = 0
    /\ logout_result = "none"
    /\ indicators = {}

\* browser.py at import: browser_pool = BrowserPool()
SelInit ==
    /\ semaphore = MAX_CONCURRENT_BROWSERS
    /\ sel_pc = [t \in Threads |-> "idle"]
    /\ sel_driver = [t \in Threads |-> FALSE]
    /\ sel_active = {}
    /\ acquires = [t \in Threads |-> 0]
    /\ releases = [t \in Threads |-> 0]
    /\ sessions = [t \in Threads |-> 0]
    /\ outcomes = {}

\* main.py and playwright_browser.py at import
SrvInit ==
    /\ active_tasks = {}
    /\ launched = 0
    /\ srv_pc = [i \in Executions |-> "unused"]
    /\ srv_email = [i \in Executions |-> "none"]
    /\ srv_browser = [i \in Executions |-> "new"]
    /\ srv_proc = [i \in Executions |-> FALSE]
    /\ srv_pool = {}

\* before a call of weighted_random_choice with one of the tables
ChoiceInit(tables) ==
    /\ action_weights \in tables
    /\ choice = "pending"

\* ProfileWarmUp.__init__
\* ProfileWarmUp.__init__: two ScrollBehavior objects, each with scroll_count 0
NoScrolls == [own |-> 0, fb |-> 0, reported |-> -1]

WuInit ==
    /\ wu_pc = "new"
    /\ wu_now = 0
    /\ session_start_time = -1
    /\ session_end_time = -1
    /\ duration = 0
    /\ original_end = -1
    /\ planned_end = -1
    /\ actions_performed = 0
    /\ wu_status = "none"
    /\ wu_error = FALSE
    /\ wu_scroll = NoScrolls

\* warmup_profile_task at line 312: logged in, the scrolling loop begins
PaceInit ==
    /\ pace_pc = "engaging"
    /\ pace_now = 0
    /\ pace_stats = [likes |-> 0, liked_posts |-> <<>>, friend_requests |-> 0,
                     friends_requested |-> <<>>]
    /\ pace_loop = [likes_this_session |-> 0, posts_returned |-> 0,
                    last_like |-> -1, like_gap |-> -1]
    /\ pace_friends = NoRequests

\* the three resources of a PlaywrightBrowser, in the order stop closes them
Resources == <<"page", "browser", "playwright">>

\* PlaywrightBrowser.__init__: page, browser and playwright are None
NoFields == [r \in {"page", "browser", "playwright"} |-> FALSE]

\* no call of stop yet
NoStop == [called |-> FALSE, had |-> {}, closed |-> {}, raised |-> FALSE]

\* a PlaywrightBrowser as browser_session creates it
PwInit ==
    /\ pw_pc = "idle"
    /\ pw_fields = NoFields
    /\ pw_max_retries = 0
    /\ pw_attempts = 0
    /\ pw_result = "none"
    /\ pw_stop = NoStop

\* no gate evaluated yet
NoGate == [gate |-> "none", probability |-> 0, draw |-> 0, acted |-> FALSE]

\* ensure_on_feed not called yet
NoFeedCall == [called |-> FALSE, read_ok |-> TRUE, url |-> <<>>,
               navigations |-> 0, result |-> FALSE, raised |-> FALSE]

\* the login form not submitted yet
NoLoginCall == [page |-> <<>>, how |-> "none", button |-> 0]

UnitInit ==
    /\ PwInit
    /\ gate_call = NoGate
    /\ feed_call = NoFeedCall
    /\ login_call = NoLoginCall

\* tasks.py at import: the client is kept if the server answered the ping
PublishInit(clients) ==
    /\ redis_client \in clients
    /\ redis_up = (redis_client = "client")
    /\ task_stats = [status |-> "started", likes |-> 0]
    /\ broadcasts = 0
    /\ delivered = 0
    /\ escaped = FALSE

Init == /\ SessionInit(ProfileTables, BOOLEAN) /\ FbInit /\ SelInit /\ SrvInit
        /\ ChoiceInit({<<>>}) /\ PublishInit({"None"}) /\ WuInit /\ PaceInit /\ UnitInit

\* ------------------------------------------- warmup_profile_task, by step

\* an exception leaves the with-block: browser_session logs and re-raises,
\* its finally unregisters and stops the browser, and the outer handler is
\* entered with the exception e
RaiseInSession(e) ==
    /\ exc' = e
    /\ active_browsers' = unregister_browser(active_browsers, TheBrowser)
    /\ browser' = "stopped"
    /\ pc' = "handler"

\* the with-block is left without an exception (return or fall through)
LeaveSession ==
    /\ active_browsers' = unregister_browser(active_browsers, TheBrowser)
    /\ browser' = "stopped"
    /\ pc' = "finally"

\* lines 245-273: the profile is selected before the try block is entered
SelectProfile ==
    /\ pc = "call"
    /\ IF select_session_profile(session_profiles) = {}
       THEN /\ pc' = "propagated"
            /\ exc' = "ValueError"
            /\ UNCHANGED <<stats, profile_config>>
       ELSE \E sel \in select_session_profile(session_profiles) :
            /\ stats' = [stats EXCEPT !.session_profile = sel.name]
            /\ profile_config' = sel.config
            /\ pc' = "try"
            /\ exc' = exc
    /\ UNCHANGED <<config_vars, indicators, logout_result, loop_errors, env_vars, session_end, delay_end, browser,
                   start_time, active_browsers, suggestions, cleanups, ops,
                   login_result, action>>

\* lines 275-279 and browser_session: the browser is started and registered,
\* or start() raises after its retries
StartBrowser ==
    /\ pc = "try"
    /\ \/ /\ browser' = "started"
          /\ start_time' = now
          /\ active_browsers' = register_browser(active_browsers, TheBrowser)
          /\ pc' = "login"
          /\ exc' = exc
       \/ /\ RaiseInSession("browser_start")
          /\ start_time' = start_time
    /\ UNCHANGED <<config_vars, indicators, logout_result, loop_errors, env_vars, stats, profile_config, session_end,
                   delay_end, suggestions, cleanups, ops, login_result, action>>

\* lines 281-311: the login phase; on success the scrolling deadline is set
Login ==
    /\ pc = "login"
    /\ \E shown \in SUBSET Indicators, raised \in RaisePoints :
       LET r == login_to_facebook(shown, raised) IN
       /\ browser # "started" => raised = "before_checks"
       /\ indicators' = shown
       /\ login_result' = r
       /\ ops' = ops \cup {"login"}
       /\ IF r = "success"
          THEN /\ stats' = [stats EXCEPT !.status = "logged_in"]
               /\ \E d \in Uniform(profile_config.scroll_minutes[1],
                                   profile_config.scroll_minutes[2]) :
                      session_end' = now + d
               /\ pc' = after_login(TRUE)
               /\ UNCHANGED <<browser, active_browsers>>
          ELSE /\ stats' = [stats EXCEPT !.status = "login_failed", !.error = r]
               /\ session_end' = session_end
               /\ IF after_login(FALSE) = "finally"
                  THEN LeaveSession
                  ELSE /\ pc' = after_login(FALSE)
                       /\ UNCHANGED <<browser, active_browsers>>
    /\ UNCHANGED <<config_vars, logout_result, loop_errors, env_vars, profile_config, delay_end, start_time,
                   suggestions, exc, cleanups, action>>

\* lines 315-329, 343-359: an iteration that selected "scroll"; an exception
\* of scroll_page is caught by the loop and the iteration is abandoned
LoopScroll ==
    /\ pc = "engaging"
    /\ before_deadline(now, session_end)
    /\ action' = "scroll"
    /\ ops' = ops \cup {"engage"}
    /\ \/ /\ browser = "started"
          /\ stats.scroll_count < MaxScrolls
          /\ stats' = [stats EXCEPT !.scroll_count = @ + 1]
          /\ loop_errors' = 0
          /\ UNCHANGED <<pc, exc, browser, active_browsers>>
       \/ /\ loop_errors < MaxErrors
          /\ loop_errors' = loop_errors + 1
          /\ stats' = stats
          /\ IF after_action_error = "engaging"
             THEN UNCHANGED <<pc, exc, browser, active_browsers>>
             ELSE RaiseInSession("scroll_page")
    /\ UNCHANGED <<config_vars, indicators, logout_result, env_vars, profile_config, session_end,
                   delay_end, start_time, suggestions, cleanups, login_result>>

\* lines 330-338: an iteration that selected "like"; like_post returns the
\* post or None and never raises
LoopLike ==
    /\ pc = "engaging"
    /\ before_deadline(now, session_end)
    /\ action' = "like"
    /\ ops' = ops \cup {"engage"}
    /\ IF CanLike(stats.likes, profile_config.max_likes)
       THEN \/ /\ browser = "started"
               /\ stats' = [stats EXCEPT !.likes = @ + 1]
            \/ stats' = stats
       ELSE stats' = stats
    /\ loop_errors' = 0
    /\ UNCHANGED <<config_vars, indicators, logout_result, env_vars, pc, profile_config, session_end,
                   delay_end, browser, start_time, active_browsers, suggestions,
                   exc, cleanups, login_result>>

\* lines 340-343: an iteration that selected "pause"
LoopPause ==
    /\ pc = "engaging"
    /\ before_deadline(now, session_end)
    /\ action' = "pause"
    /\ ops' = ops \cup {"engage"}
    /\ loop_errors' = 0
    /\ UNCHANGED <<config_vars, indicators, logout_result, env_vars, pc, stats, profile_config, session_end,
                   delay_end, browser, start_time, active_browsers, suggestions,
                   exc, cleanups, login_result>>

\* line 315 false, lines 361-362: the scrolling loop is over
LoopExit ==
    /\ pc = "engaging"
    /\ ~before_deadline(now, session_end)
    /\ pc' = "friend_gate"
    /\ action' = "none"
    /\ loop_errors' = 0
    /\ UNCHANGED <<config_vars, indicators, logout_result, env_vars, stats, profile_config, session_end,
                   delay_end, browser, start_time, active_browsers, suggestions,
                   exc, cleanups, ops, login_result>>

\* lines 390-402: the pre-logout delay is sampled and its deadline set
StartDelay ==
    /\ \E d \in Uniform(profile_config.logout_delay_minutes[1],
                        profile_config.logout_delay_minutes[2]) :
           delay_end' = now + d
    /\ pc' = after_friend_suggestions
    /\ ops' = ops \cup {"idle"}

\* lines 366, 387-388: the friend-suggestions gate
FriendGate ==
    /\ pc = "friend_gate"
    /\ \E r \in RandomDraws :
       IF r < profile_config.friend_probability
       THEN /\ pc' = "friends_nav"
            /\ ops' = ops \cup {"friends"}
            /\ delay_end' = delay_end
       ELSE StartDelay
    /\ UNCHANGED <<config_vars, indicators, logout_result, loop_errors, env_vars, stats, profile_config, session_end,
                   browser, start_time, active_browsers, suggestions, exc,
                   cleanups, login_result, action>>

\* visit_friend_suggestions returns the list it has built, lines 372-376
ReturnFriends(sent) ==
    /\ stats' = [stats EXCEPT !.friend_requests = sent]
    /\ suggestions' = NoSuggestions
    /\ StartDelay

\* lines 628-630: navigation to the suggestions page; an exception ends
\* visit_friend_suggestions with the empty list
FriendsNavigate ==
    /\ pc = "friends_nav"
    /\ \/ /\ browser = "started"
          /\ pc' = "friends_find"
          /\ UNCHANGED <<stats, delay_end, ops>>
          /\ suggestions' = NoSuggestions
       \/ ReturnFriends(0)
    /\ UNCHANGED <<config_vars, indicators, logout_result, loop_errors, env_vars, profile_config, session_end, browser,
                   start_time, active_browsers, exc, cleanups, login_result,
                   action>>

\* lines 632-646: scrolling, button discovery and the target number
FriendsDiscover ==
    /\ pc = "friends_find"
    /\ \/ /\ browser = "started"
          /\ \E n \in 0..MaxButtons, t \in min_friend_requests..max_friend_requests :
                 suggestions' = [buttons |-> n, target |-> t, index |-> 0, sent |-> 0]
          /\ pc' = "friends_loop"
          /\ UNCHANGED <<stats, delay_end, ops>>
       \/ ReturnFriends(0)
    /\ UNCHANGED <<config_vars, indicators, logout_result, loop_errors, env_vars, profile_config, session_end, browser,
                   start_time, active_browsers, exc, cleanups, login_result,
                   action>>

\* lines 648-680: one button of visible_buttons[:target]
FriendsRequest ==
    /\ pc = "friends_loop"
    /\ suggestions.index < SliceLen(suggestions.buttons, suggestions.target)
    /\ \E r \in RandomDraws :
       IF r < SendChance
       THEN \/ /\ browser = "started"
               /\ suggestions' = [suggestions EXCEPT !.index = @ + 1, !.sent = @ + 1]
            \/ suggestions' = [suggestions EXCEPT !.index = @ + 1]
       ELSE suggestions' = [suggestions EXCEPT !.index = @ + 1]
    /\ UNCHANGED <<config_vars, indicators, logout_result, loop_errors, env_vars, pc, stats, profile_config, session_end,
                   delay_end, browser, start_time, active_browsers, exc, cleanups,
                   ops, login_result, action>>

\* lines 682-691: back to the feed (an exception is caught) and return
FriendsReturn ==
    /\ pc = "friends_loop"
    /\ ~(suggestions.index < SliceLen(suggestions.buttons, suggestions.target))
    /\ ReturnFriends(suggestions.sent)
    /\ UNCHANGED <<config_vars, indicators, logout_result, loop_errors, env_vars, profile_config, session_end, browser,
                   start_time, active_browsers, exc, cleanups, login_result,
                   action>>

\* lines 403-405: one iteration of the pre-logout loop; an exception of
\* scroll_page is not caught here
IdleScroll ==
    /\ pc = "idle"
    /\ delay_running(now, delay_end)
    /\ \/ /\ browser = "started"
          /\ UNCHANGED <<pc, exc, browser, active_browsers>>
       \/ RaiseInSession("scroll_page")
    /\ UNCHANGED <<config_vars, indicators, logout_result, loop_errors, env_vars, stats, profile_config, session_end,
                   delay_end, start_time, suggestions, cleanups, ops,
                   login_result, action>>

\* line 403 false, line 407: the pre-logout loop is over
IdleExit ==
    /\ pc = "idle"
    /\ ~delay_running(now, delay_end)
    /\ pc' = "logout"
    /\ UNCHANGED <<config_vars, indicators, logout_result, loop_errors, env_vars, stats, profile_config, session_end,
                   delay_end, browser, start_time, active_browsers, suggestions,
                   exc, cleanups, ops, login_result, action>>

\* lines 409-416: the optional logout (logout_from_facebook catches its
\* exceptions and returns whether it logged out), status "completed", and
\* the end of the with-block
Logout ==
    /\ pc = "logout"
    /\ IF perform_logout
       THEN \E logged_out \in BOOLEAN :
              /\ browser # "started" => ~logged_out
              /\ logout_result' = IF logged_out THEN "logged_out" ELSE "failed"
              /\ ops' = ops \cup {"logout"}
              /\ stats' = [stats EXCEPT !.status = after_logout(logged_out)]
       ELSE /\ UNCHANGED <<logout_result, ops>>
            /\ stats' = [stats EXCEPT !.status = after_logout(TRUE)]
    /\ LeaveSession
    /\ UNCHANGED <<config_vars, indicators, loop_errors, env_vars, profile_config, session_end, delay_end,
                   start_time, suggestions, exc, cleanups, login_result, action>>

\* the outermost handler without the forced cleanup
Handler_NoCleanup ==
    /\ pc = "handler"
    /\ stats' = [stats EXCEPT !.status = "error", !.error = exc]
    /\ pc' = "finally"
    /\ UNCHANGED <<config_vars, indicators, logout_result, loop_errors, env_vars, profile_config, session_end, delay_end,
                   browser, start_time, active_browsers, suggestions, exc,
                   cleanups, ops, login_result, action>>

\* lines 418-424: the outermost handler
Handler ==
    /\ pc = "handler"
    /\ stats' = [stats EXCEPT !.status = "error", !.error = exc]
    /\ active_browsers' = cleanup_all(active_browsers)
    /\ browser' = IF TheBrowser \in active_browsers THEN "stopped" ELSE browser
    /\ cleanups' = cleanups + 1
    /\ pc' = "finally"
    /\ UNCHANGED <<config_vars, indicators, logout_result, loop_errors, env_vars, profile_config, session_end, delay_end,
                   start_time, suggestions, exc, ops, login_result, action>>

\* lines 426-452: the finally block and the return of the result
Finally ==
    /\ pc = "finally"
    /\ pc' = "returned"
    /\ UNCHANGED <<config_vars, indicators, logout_result, loop_errors, env_vars, stats, profile_config, session_end,
                   delay_end, browser, start_time, active_browsers, suggestions,
                   exc, cleanups, ops, login_result, action>>

\* ----------------------------------------------------------- environment

\* run_warmup_direct after warmup_profile_task returned or raised: its
\* finally block removes the email from active_tasks
run_warmup_direct ==
    /\ pc \in {"returned", "propagated"}
    /\ active_task
    /\ active_task' = FALSE
    /\ UNCHANGED <<config_vars, indicators, logout_result, loop_errors, now, stopped_in, expired, pc, stats,
                   profile_config, session_end, delay_end, browser, start_time,
                   active_browsers, suggestions, exc, cleanups, ops,
                   login_result, action>>

\* POST /warmup/stop/{email}: cleanup_all stops every registered browser
stop_warmup ==
    /\ active_task
    /\ active_browsers' = cleanup_all(active_browsers)
    /\ browser' = IF TheBrowser \in active_browsers THEN "stopped" ELSE browser
    /\ active_task' = FALSE
    /\ stopped_in' = PhaseName(pc)
    /\ UNCHANGED <<config_vars, indicators, logout_result, loop_errors, now, expired, pc, stats, profile_config,
                   session_end, delay_end, start_time, suggestions, exc,
                   cleanups, ops, login_result, action>>

\* the clock advances while the session sleeps; nothing in the session reads
\* is_timeout
Tick ==
    /\ now < MaxTime
    /\ pc \in Sleeping
    /\ now' = now + 1
    /\ expired' = (expired \/ (pc \in InSession /\ is_timeout(now + 1)))
    /\ UNCHANGED <<config_vars, indicators, logout_result, loop_errors, active_task, stopped_in, pc, stats,
                   profile_config, session_end, delay_end, browser, start_time,
                   active_browsers, suggestions, exc, cleanups, ops,
                   login_result, action>>

Next ==
    \/ SelectProfile
    \/ StartBrowser
    \/ Login
    \/ LoopScroll
    \/ LoopLike
    \/ LoopPause
    \/ LoopExit
    \/ FriendGate
    \/ FriendsNavigate
    \/ FriendsDiscover
    \/ FriendsRequest
    \/ FriendsReturn
    \/ IdleScroll
    \/ IdleExit
    \/ Logout
    \/ Handler
    \/ Finally
    \/ run_warmup_direct
    \/ stop_warmup
    \/ Tick

Spec == Init /\ [][Next]_vars

\* the steps of the thread that runs warmup_profile_task, but for the
\* iterations of its two timed loops: an iteration is never the only way on,
\* and fairness must not force one to raise
TaskNext ==
    \/ SelectProfile
    \/ StartBrowser
    \/ Login
    \/ LoopExit
    \/ FriendGate
    \/ FriendsNavigate
    \/ FriendsDiscover
    \/ FriendsRequest
    \/ FriendsReturn
    \/ IdleExit
    \/ Logout
    \/ Handler
    \/ Finally

InitLive == /\ SessionInit({QuickProfile}, {TRUE}) /\ FbInit /\ SelInit /\ SrvInit
            /\ ChoiceInit({<<>>}) /\ PublishInit({"None"}) /\ WuInit /\ PaceInit /\ UnitInit

\* every collaborator call returns, so the thread takes its next step, and
\* the clock advances while the thread sleeps
SpecLive == InitLive /\ [][Next]_vars /\ WF_vars(TaskNext) /\ WF_vars(Tick)

\* ------------------------------------------------- claims checked on Spec

\* C1: warmup_profile_task never lets an exception propagate to its caller,
\* whatever the profile configuration and the collaborators' outcomes.
C1_NeverPropagates == pc # "propagated"

\* C2: once login has failed, in whatever way, the task reports status
\* "login_failed", heads straight for its return, and has scrolled nothing,
\* liked nothing, sent no friend request, and has neither visited the friend
\* suggestions, nor idled before logout, nor attempted a logout.
C2_LoginFailedNoEngagement ==
    login_result \in LoginFailures =>
        /\ stats.status = "login_failed"
        /\ pc \in {"finally", "returned"}
        /\ stats.scroll_count = 0
        /\ stats.likes = 0
        /\ stats.friend_requests = 0
        /\ ops \cap {"engage", "friends", "idle", "logout"} = {}

C2_Witness == pc = "returned" /\ login_result = "bad_credentials"

\* C3: when an exception left the session body (browser start, pre-logout
\* scrolling), the task ends with status "error", error holds the exception,
\* and cleanup_all has been called before the result is returned.
C3_ErrorHandled ==
    (exc # "none" /\ pc \in {"finally", "returned"}) =>
        /\ stats.status = "error"
        /\ stats.error = exc
        /\ cleanups >= 1

C3_Witness == pc = "returned" /\ exc = "scroll_page" /\ "idle" \in ops

\* C4: in every state the likes are at most the selected profile's max_likes
\* and the friend requests sent are at most max_friend_requests.
C4_CountersWithinCaps ==
    /\ stats.likes <= profile_config.max_likes
    /\ suggestions.sent <= max_friend_requests
    /\ stats.friend_requests <= max_friend_requests

C4_Witness ==
    /\ pc = "returned"
    /\ profile_config.max_likes > 0
    /\ stats.likes = profile_config.max_likes
    /\ stats.friend_requests = max_friend_requests

\* C6: the phases are passed in the order login, engaging, friend
\* suggestions, pre-logout idle, logout, terminal; no step goes back to an
\* earlier phase, and after the scrolling loop has been left no loop action
\* is selected and neither scroll_count nor likes changes.
C6_PhasesInOrder ==
    [][/\ PhaseRank(pc') >= PhaseRank(pc)
       /\ PhaseRank(pc) >= 3 =>
             /\ action' = action
             /\ stats'.scroll_count = stats.scroll_count
             /\ stats'.likes = stats.likes]_vars

C6_Witness ==
    /\ pc = "returned"
    /\ stats.status = "completed"
    /\ {"login", "engage", "friends", "idle", "logout"} \subseteq ops
    /\ stats.scroll_count > 0

\* C9: a stop requested while the session is in the scrolling loop makes the
\* session skip the remaining scheduled phases, still attempt the logout,
\* and return a status that reflects the early termination.
C9_StopEndsSession ==
    (stopped_in = "engaging" /\ pc = "returned") =>
        /\ stats.status \notin {"completed", "error"}
        /\ "friends" \notin ops
        /\ "logout" \in ops

\* C10: when WARMUP_TIMEOUT expires while the session is running, the
\* session is cleaned up by force and returns the status of a timeout,
\* which is not the status of other errors.
C10_TimeoutStatus ==
    (expired /\ pc = "returned") =>
        /\ stats.status = "timeout"
        /\ cleanups >= 1

\* C13: consecutive exceptions in the scrolling loop, three or more of them
\* included, neither end the loop nor make the session an error: while the
\* count of consecutive exceptions is positive the session is still in the
\* loop with status "logged_in", and the loop is only left for the
\* friend-suggestions gate, once the deadline has passed.
C13_LoopToleratesExceptions ==
    [][/\ pc = "engaging" => stats'.status = "logged_in"
       /\ (pc = "engaging" /\ pc' # "engaging") =>
             /\ pc' = "friend_gate"
             /\ ~(now < session_end)
       /\ loop_errors' > loop_errors => pc' = "engaging"]_vars

C13_Witness ==
    /\ loop_errors >= 3
    /\ pc = "engaging"
    /\ ~(now < session_end)
    /\ stats.status = "logged_in"

\* C14: the logout is attempted if and only if perform_logout is enabled and
\* the pre-logout delay is over, and whether it succeeds or fails the
\* session ends with status "completed".
C14_LogoutBestEffort ==
    /\ logout_result # "none" =>
          /\ perform_logout
          /\ delay_end # -1 /\ ~(now < delay_end)
          /\ stats.status = "completed"
          /\ exc = "none"
    /\ (PhaseRank(pc) = 6 /\ "idle" \in ops /\ exc = "none") =>
          /\ stats.status = "completed"
          /\ logout_result # "none" <=> perform_logout
    /\ logout_result # "none" <=> "logout" \in ops

C14_Witness ==
    /\ pc = "returned"
    /\ logout_result = "failed"
    /\ stats.status = "completed"
    /\ browser = "stopped"

\* C15: a failed login carries a reason that tells apart checkpoint,
\* two-factor, wrong credentials, disabled account and exception; unless an
\* exception was raised the reason follows the priority checkpoint,
\* two-factor, login page, disabled account over the indicators shown;
\* success is reported only when none is shown; and the error field of the
\* login_failed result is that reason.
C15_LoginFailureReason ==
    /\ login_result \notin {"none", "exception"} =>
          login_result =
              CASE "checkpoint" \in indicators -> "checkpoint"
                [] "checkpoint" \notin indicators /\ "two_factor" \in indicators
                     -> "two_factor"
                [] indicators \cap {"checkpoint", "two_factor"} = {}
                   /\ "login_page" \in indicators -> "bad_credentials"
                [] indicators = {"account_disabled"} -> "account_disabled"
                [] indicators = {} -> "success"
    /\ login_result \in LoginFailures =>
          /\ stats.status = "login_failed"
          /\ stats.error = login_result
          /\ stats.error # "none"

C15_Witness ==
    /\ pc = "returned"
    /\ indicators = {"two_factor", "login_page", "account_disabled"}
    /\ stats.status = "login_failed"
    /\ stats.error = "two_factor"

\* C16: with a successful login and a profile whose scroll_minutes range is
\* (0, 0) the scrolling loop makes no iteration (no scroll, no like), and
\* the session still passes the friend-suggestions gate, the pre-logout
\* delay and the logout step and ends with status "completed".
C16_EmptyScrollingPhase ==
    (login_result = "success" /\ profile_config.scroll_minutes = <<0, 0>>) =>
        /\ stats.scroll_count = 0
        /\ stats.likes = 0
        /\ "engage" \notin ops
        /\ (pc = "returned" /\ exc = "none") =>
              /\ stats.status = "completed"
              /\ "idle" \in ops
              /\ perform_logout => "logout" \in ops

C16_Witness ==
    /\ pc = "returned"
    /\ login_result = "success"
    /\ profile_config.scroll_minutes = <<0, 0>>
    /\ stats.status = "completed"
    /\ {"friends", "idle", "logout"} \subseteq ops
    /\ stats.scroll_count = 0

\* the task is in one of its two timed loops and the deadline of the loop
\* has not passed
AwaitingDeadline ==
    \/ pc = "engaging" /\ now < session_end
    \/ pc = "idle" /\ now < delay_end

\* C20: every execution of warmup_profile_task eventually returns: from any
\* state in which it is not waiting for a deadline that is still ahead it
\* reaches its end or the wait for a deadline that is still ahead (the two
\* timed loops end once their deadlines have passed, everything else is a
\* bounded number of steps), within the horizon of the clock it reaches its
\* end, and the status it returns is login_failed, completed or error.
C20_Terminates ==
    /\ [](pc = "returned" => stats.status \in {"login_failed", "completed", "error"})
    /\ ~AwaitingDeadline ~> (pc \in {"returned", "propagated"} \/ AwaitingDeadline)
    /\ <>(pc \in {"returned", "propagated"} \/ now = MaxTime)

C20_Witness ==
    /\ pc = "returned"
    /\ stats.status = "completed"
    /\ {"engage", "friends", "idle"} \subseteq ops
    /\ session_end > 0 /\ delay_end > session_end
    /\ stats.friend_requests > 0

\* C25: on every exit path of warmup_profile_task, when the function
\* returns, the browser of the session has been stopped and is not in
\* browser_pool.active_browsers.
C25_BrowserReleased ==
    pc = "returned" => (browser = "stopped" /\ TheBrowser \notin active_browsers)

C25_Witness ==
    /\ pc = "returned"
    /\ stats.status = "login_failed"
    /\ start_time # -1
    /\ cleanups = 0
    /\ browser = "stopped"

\* the positions of visit_friend_suggestions after its navigation to the
\* suggestions page
OnSuggestionsPage == {"friends_find", "friends_loop"}

\* C23: once the friend-suggestions phase is entered, the navigation back to
\* the main feed is issued before the pre-logout phase starts: the session
\* leaves the suggestions page only through the end of the request loop,
\* where the navigation of line 682 follows.
C23_ReturnsToFeed ==
    [][(pc \in OnSuggestionsPage /\ pc' \notin OnSuggestionsPage) =>
          (/\ pc = "friends_loop"
           /\ ~(suggestions.index < SliceLen(suggestions.buttons, suggestions.target)))]_vars

\* C11: select_session_profile never fails: with no profile table, or with
\* a table whose weights cannot be used for a weighted selection, the
\* session runs with the profile "default"; otherwise it runs with a
\* profile of the table whose weight is greater than zero.
C11_SelectFallsBack ==
    LET unusable == \/ DOMAIN session_profiles = {}
                    \/ SumWeights(session_profiles, DOMAIN session_profiles) <= 0
    IN  pc # "call" =>
          /\ exc # "ValueError"
          /\ IF unusable
             THEN stats.session_profile = "default"
             ELSE /\ stats.session_profile \in DOMAIN session_profiles
                  /\ session_profiles[stats.session_profile].weight > 0

\* ------------------------------------------------------- FacebookActions

\* like_post: the guard (a rejected call returns False at once), the
\* probability gate, the search that may find no button, then the click
\* (e ticks after the call), the record of the success and the delay that
\* follows it
like_post ==
    /\ \/ /\ ~can_like(likes_count, last_like_time, clock)
          /\ fb_call' = Call("like", "rejected")
          /\ UNCHANGED <<clock, likes_count, last_like_time, gap>>
       \/ /\ can_like(likes_count, last_like_time, clock)
          /\ \E r \in RandomDraws : r > like_probability
          /\ fb_call' = Call("like", "skipped")
          /\ UNCHANGED <<clock, likes_count, last_like_time, gap>>
       \/ /\ can_like(likes_count, last_like_time, clock)
          /\ fb_call' = Call("like", "failed")
          /\ UNCHANGED <<clock, likes_count, last_like_time, gap>>
       \/ /\ can_like(likes_count, last_like_time, clock)
          /\ \E r \in RandomDraws, e \in {0, 1},
                d \in Uniform(Ticks(min_time_between_likes), Ticks(max_time_between_likes)) :
                /\ ~(r > like_probability)
                /\ clock + e + d <= MaxClock
                /\ likes_count' = likes_count + 1
                /\ last_like_time' = clock + e
                /\ gap' = [gap EXCEPT !["like"] = NewGap(likes_count, last_like_time, clock + e)]
                /\ clock' = clock + e + d
          /\ fb_call' = Call("like", "done")
    /\ UNCHANGED <<session_vars, wu_vars, choice_vars, publish_vars, pace_vars, unit_vars, sel_vars, srv_vars,
                   comments_count, friend_requests_count, last_comment_time,
                   last_friend_request_time>>

\* comment_on_post, as like_post
comment_on_post ==
    /\ \/ /\ ~can_comment(comments_count, last_comment_time, clock)
          /\ fb_call' = Call("comment", "rejected")
          /\ UNCHANGED <<clock, comments_count, last_comment_time, gap>>
       \/ /\ can_comment(comments_count, last_comment_time, clock)
          /\ \E r \in RandomDraws : r > comment_probability
          /\ fb_call' = Call("comment", "skipped")
          /\ UNCHANGED <<clock, comments_count, last_comment_time, gap>>
       \/ /\ can_comment(comments_count, last_comment_time, clock)
          /\ fb_call' = Call("comment", "failed")
          /\ UNCHANGED <<clock, comments_count, last_comment_time, gap>>
       \/ /\ can_comment(comments_count, last_comment_time, clock)
          /\ \E r \in RandomDraws, e \in {0, 1},
                d \in Uniform(Ticks(min_time_between_comments), Ticks(max_time_between_comments)) :
                /\ ~(r > comment_probability)
                /\ clock + e + d <= MaxClock
                /\ comments_count' = comments_count + 1
                /\ last_comment_time' = clock + e
                /\ gap' = [gap EXCEPT !["comment"] = NewGap(comments_count, last_comment_time, clock + e)]
                /\ clock' = clock + e + d
          /\ fb_call' = Call("comment", "done")
    /\ UNCHANGED <<session_vars, wu_vars, choice_vars, publish_vars, pace_vars, unit_vars, sel_vars, srv_vars,
                   likes_count, friend_requests_count, last_like_time,
                   last_friend_request_time>>

\* send_friend_request: no probability gate
send_friend_request ==
    /\ \/ /\ ~can_send_friend_request(friend_requests_count, last_friend_request_time, clock)
          /\ fb_call' = Call("friend_request", "rejected")
          /\ UNCHANGED <<clock, friend_requests_count, last_friend_request_time, gap>>
       \/ /\ can_send_friend_request(friend_requests_count, last_friend_request_time, clock)
          /\ fb_call' = Call("friend_request", "failed")
          /\ UNCHANGED <<clock, friend_requests_count, last_friend_request_time, gap>>
       \/ /\ can_send_friend_request(friend_requests_count, last_friend_request_time, clock)
          /\ \E e \in {0, 1},
                d \in Uniform(Ticks(min_time_between_requests), Ticks(max_time_between_requests)) :
                /\ clock + e + d <= MaxClock
                /\ friend_requests_count' = friend_requests_count + 1
                /\ last_friend_request_time' = clock + e
                /\ gap' = [gap EXCEPT !["friend_request"] = NewGap(friend_requests_count, last_friend_request_time, clock + e)]
                /\ clock' = clock + e + d
          /\ fb_call' = Call("friend_request", "done")
    /\ UNCHANGED <<session_vars, wu_vars, choice_vars, publish_vars, pace_vars, unit_vars, sel_vars, srv_vars,
                   likes_count, comments_count, last_like_time,
                   last_comment_time>>

\* time passes between two calls
ClockTick ==
    /\ clock < MaxClock
    /\ clock' = clock + 1
    /\ UNCHANGED <<session_vars, wu_vars, choice_vars, publish_vars, pace_vars, unit_vars, sel_vars, srv_vars, likes_count, comments_count,
                   friend_requests_count, last_like_time, last_comment_time,
                   last_friend_request_time, gap, fb_call>>

InitActions == /\ SessionInit({NoProfiles}, {TRUE}) /\ FbInit /\ SelInit /\ SrvInit
    /\ ChoiceInit({<<>>}) /\ PublishInit({"None"}) /\ WuInit /\ PaceInit /\ UnitInit

NextActions ==
    \/ like_post
    \/ comment_on_post
    \/ send_friend_request
    \/ ClockTick

SpecActions == InitActions /\ [][NextActions]_vars

\* ------------------------------------------ claims checked on SpecActions

\* C5: the successes of each kind never exceed the per-session cap of the
\* kind, and two consecutive successes of one kind are at least the minimum
\* interval of the kind apart.
C5_RateLimits ==
    /\ likes_count <= max_likes_per_session
    /\ comments_count <= max_comments_per_session
    /\ friend_requests_count <= max_friend_requests_per_session
    /\ gap["like"] # -1 => gap["like"] * SecondsPerClockTick >= min_time_between_likes
    /\ gap["comment"] # -1 =>
           gap["comment"] * SecondsPerClockTick >= min_time_between_comments
    /\ gap["friend_request"] # -1 =>
           gap["friend_request"] * SecondsPerClockTick >= min_time_between_requests

C5_Witness ==
    /\ likes_count = max_likes_per_session
    /\ gap["like"] * SecondsPerClockTick = min_time_between_likes
    /\ clock < MaxClock

\* C29: a call of like_post, comment_on_post or send_friend_request that its
\* eligibility guard rejects has no side effect: the counters and the
\* last-performed timestamps are unchanged and no page interaction (scroll,
\* query, click) is issued.
C29_RejectedNoEffect ==
    [][(fb_call' # fb_call /\ fb_call'.outcome = "rejected") =>
          /\ UNCHANGED <<likes_count, comments_count, friend_requests_count,
                         last_like_time, last_comment_time,
                         last_friend_request_time>>
          /\ ~fb_call'.touched]_vars

C29_Witness ==
    /\ fb_call = Call("like", "rejected")
    /\ likes_count = max_likes_per_session
    /\ ~can_like(likes_count, last_like_time, clock)
    /\ friend_requests_count > 0

\* ------------------------------------------- browser.py: browser_session

\* a thread calls browser_session
SelEnter(t) ==
    /\ sel_pc[t] = "idle"
    /\ sessions[t] < MaxSessions
    /\ sessions' = [sessions EXCEPT ![t] = @ + 1]
    /\ sel_pc' = [sel_pc EXCEPT ![t] = "acquire"]
    /\ UNCHANGED <<session_vars, wu_vars, choice_vars, publish_vars, pace_vars, unit_vars, fb_vars, srv_vars, semaphore, sel_driver,
                   sel_active, acquires, releases, outcomes>>

\* browser_pool.acquire() returns True
SelAcquire(t) ==
    /\ sel_pc[t] = "acquire"
    /\ semaphore > 0
    /\ semaphore' = semaphore - 1
    /\ acquires' = [acquires EXCEPT ![t] = @ + 1]
    /\ sel_pc' = [sel_pc EXCEPT ![t] = "create"]
    /\ UNCHANGED <<session_vars, wu_vars, choice_vars, publish_vars, pace_vars, unit_vars, fb_vars, srv_vars, sel_driver, sel_active,
                   releases, sessions, outcomes>>

\* browser_pool.acquire() times out and returns False: browser_session
\* raises before its try statement
SelAcquireTimeout(t) ==
    /\ sel_pc[t] = "acquire"
    /\ semaphore = 0
    /\ sel_pc' = [sel_pc EXCEPT ![t] = "idle"]
    /\ outcomes' = outcomes \cup {"no_slot"}
    /\ UNCHANGED <<session_vars, wu_vars, choice_vars, publish_vars, pace_vars, unit_vars, fb_vars, srv_vars, semaphore, sel_driver,
                   sel_active, acquires, releases, sessions>>

\* manager.create_browser() returns the driver, registered in the pool
SelCreateBrowser(t) ==
    /\ sel_pc[t] = "create"
    /\ sel_driver' = [sel_driver EXCEPT ![t] = TRUE]
    /\ sel_active' = register_browser(sel_active, t)
    /\ sel_pc' = [sel_pc EXCEPT ![t] = "body"]
    /\ UNCHANGED <<session_vars, wu_vars, choice_vars, publish_vars, pace_vars, unit_vars, fb_vars, srv_vars, semaphore, acquires,
                   releases, sessions, outcomes>>

\* manager.create_browser() raises, before or after self.driver is set
SelCreateFails(t) ==
    /\ sel_pc[t] = "create"
    /\ \E driver_set \in BOOLEAN : sel_driver' = [sel_driver EXCEPT ![t] = driver_set]
    /\ sel_pc' = [sel_pc EXCEPT ![t] = "finally"]
    /\ outcomes' = outcomes \cup {"create_failed"}
    /\ UNCHANGED <<session_vars, wu_vars, choice_vars, publish_vars, pace_vars, unit_vars, fb_vars, srv_vars, semaphore, sel_active,
                   acquires, releases, sessions>>

\* the body of the with statement ends, normally or by an exception
SelBody(t) ==
    /\ sel_pc[t] = "body"
    /\ \E raised \in BOOLEAN :
          outcomes' = outcomes \cup {IF raised THEN "body_raised" ELSE "normal"}
    /\ sel_pc' = [sel_pc EXCEPT ![t] = "finally"]
    /\ UNCHANGED <<session_vars, wu_vars, choice_vars, publish_vars, pace_vars, unit_vars, fb_vars, srv_vars, semaphore, sel_driver,
                   sel_active, acquires, releases, sessions>>

\* BrowserPool.cleanup_all(), called by another part of the program
SelCleanupAll ==
    /\ sel_active # {}
    /\ sel_active' = cleanup_all(sel_active)
    /\ UNCHANGED <<session_vars, wu_vars, choice_vars, publish_vars, pace_vars, unit_vars, fb_vars, srv_vars, semaphore, sel_pc, sel_driver,
                   acquires, releases, sessions, outcomes>>

\* the finally clause: manager.quit(), which swallows its errors, then
\* browser_pool.release()
SelFinally(t) ==
    /\ sel_pc[t] = "finally"
    /\ sel_active' = IF sel_driver[t] THEN unregister_browser(sel_active, t)
                     ELSE sel_active
    /\ sel_driver' = [sel_driver EXCEPT ![t] = FALSE]
    /\ semaphore' = semaphore_release(semaphore)
    /\ releases' = [releases EXCEPT ![t] = @ + 1]
    /\ sel_pc' = [sel_pc EXCEPT ![t] = "idle"]
    /\ UNCHANGED <<session_vars, wu_vars, choice_vars, publish_vars, pace_vars, unit_vars, fb_vars, srv_vars, acquires, sessions, outcomes>>

InitSelenium == /\ SessionInit({NoProfiles}, {TRUE}) /\ FbInit /\ SelInit /\ SrvInit
    /\ ChoiceInit({<<>>}) /\ PublishInit({"None"}) /\ WuInit /\ PaceInit /\ UnitInit

NextSelenium ==
    \/ \E t \in Threads : SelEnter(t)
    \/ \E t \in Threads : SelAcquire(t)
    \/ \E t \in Threads : SelAcquireTimeout(t)
    \/ \E t \in Threads : SelCreateBrowser(t)
    \/ \E t \in Threads : SelCreateFails(t)
    \/ \E t \in Threads : SelBody(t)
    \/ SelCleanupAll
    \/ \E t \in Threads : SelFinally(t)

SpecSelenium == InitSelenium /\ [][NextSelenium]_vars

\* ----------------------------------------- claims checked on SpecSelenium

\* C7: on every exit path of browser_session each successful acquire is
\* matched by exactly one release and nothing is released that was not
\* acquired: a thread has one acquire more than releases exactly while it is
\* between the acquire and the end of the finally clause, and the free slots
\* are the slots of the pool minus the threads in that section, so that they
\* are back at their initial value whenever no session is open.
C7_AcquireReleaseBalanced ==
    /\ \A t \in Threads :
          acquires[t] - releases[t] = IF sel_pc[t] \in Holding THEN 1 ELSE 0
    /\ semaphore = MAX_CONCURRENT_BROWSERS
                      - Cardinality({t \in Threads : sel_pc[t] \in Holding})

C7_Witness ==
    /\ \A t \in Threads : sel_pc[t] = "idle" /\ releases[t] >= 1
    /\ outcomes = {"normal", "body_raised", "create_failed", "no_slot"}
    /\ semaphore = MAX_CONCURRENT_BROWSERS

\* ------------------------ main.py: the endpoints and the background tasks

\* BrowserPool.cleanup_all of playwright_browser.py on the browser objects
StopAll(browsers, pool) ==
    [i \in Executions |-> IF i \in pool THEN "stopped" ELSE browsers[i]]

\* POST /warmup/start for an email without a running entry: the entry is
\* registered and run_warmup_direct is added as a background task
start_warmup(e) ==
    /\ e \notin active_tasks
    /\ launched < MaxExecutions
    /\ launched' = launched + 1
    /\ active_tasks' = active_tasks \cup {e}
    /\ srv_pc' = [srv_pc EXCEPT ![launched + 1] = "queued"]
    /\ srv_email' = [srv_email EXCEPT ![launched + 1] = e]
    /\ UNCHANGED <<session_vars, wu_vars, choice_vars, publish_vars, pace_vars, unit_vars, fb_vars, sel_vars, srv_browser, srv_proc, srv_pool>>

\* the executor thread enters browser_session: browser.start() succeeds,
\* after cleanup_browser_processes() has killed the Chrome processes its
\* pattern matches, and the browser is registered
ExecStartBrowser(i) ==
    /\ srv_pc[i] = "queued"
    /\ \E killed \in {{}, Executions} :
          srv_proc' = [j \in Executions |-> IF j = i THEN TRUE
                                            ELSE srv_proc[j] /\ j \notin killed]
    /\ srv_browser' = [srv_browser EXCEPT ![i] = "started"]
    /\ srv_pool' = register_browser(srv_pool, i)
    /\ srv_pc' = [srv_pc EXCEPT ![i] = "session"]
    /\ UNCHANGED <<session_vars, wu_vars, choice_vars, publish_vars, pace_vars, unit_vars, fb_vars, sel_vars, active_tasks, launched, srv_email>>

\* browser.start() raises after its retries, each of which ran stop() and
\* cleanup_browser_processes(); the finally clause of browser_session runs
ExecStartFails(i) ==
    /\ srv_pc[i] = "queued"
    /\ \E killed \in {{}, Executions} :
          srv_proc' = [j \in Executions |-> srv_proc[j] /\ j # i /\ j \notin killed]
    /\ srv_browser' = [srv_browser EXCEPT ![i] = "stopped"]
    /\ srv_pc' = [srv_pc EXCEPT ![i] = "handler"]
    /\ UNCHANGED <<session_vars, wu_vars, choice_vars, publish_vars, pace_vars, unit_vars, fb_vars, sel_vars, active_tasks, launched,
                   srv_email, srv_pool>>

\* the body of the with statement ends and the finally clause of
\* browser_session unregisters and stops the browser; after an exception
\* the handler of warmup_profile_task is next
ExecLeaveSession(i) ==
    /\ srv_pc[i] = "session"
    /\ srv_pool' = unregister_browser(srv_pool, i)
    /\ srv_browser' = [srv_browser EXCEPT ![i] = "stopped"]
    /\ srv_proc' = [srv_proc EXCEPT ![i] = FALSE]
    /\ \E raised \in BOOLEAN :
          srv_pc' = [srv_pc EXCEPT ![i] = IF raised THEN "handler" ELSE "finish"]
    /\ UNCHANGED <<session_vars, wu_vars, choice_vars, publish_vars, pace_vars, unit_vars, fb_vars, sel_vars, active_tasks, launched, srv_email>>

\* the except clause of warmup_profile_task: browser_pool.cleanup_all()
ExecHandler(i) ==
    /\ srv_pc[i] = "handler"
    /\ srv_browser' = StopAll(srv_browser, srv_pool)
    /\ srv_pool' = cleanup_all(srv_pool)
    /\ srv_proc' = [j \in Executions |-> FALSE]
    /\ srv_pc' = [srv_pc EXCEPT ![i] = "finish"]
    /\ UNCHANGED <<session_vars, wu_vars, choice_vars, publish_vars, pace_vars, unit_vars, fb_vars, sel_vars, active_tasks, launched, srv_email>>

\* warmup_profile_task has returned: the finally clause of run_warmup_direct
\* deletes the entry of the email
ExecFinish(i) ==
    /\ srv_pc[i] = "finish"
    /\ active_tasks' = active_tasks \ {srv_email[i]}
    /\ srv_pc' = [srv_pc EXCEPT ![i] = "done"]
    /\ UNCHANGED <<session_vars, wu_vars, choice_vars, publish_vars, pace_vars, unit_vars, fb_vars, sel_vars, launched, srv_email,
                   srv_browser, srv_proc, srv_pool>>

\* POST /warmup/stop/{email} for an email with an entry
stop_warmup_endpoint(e) ==
    /\ e \in active_tasks
    /\ srv_browser' = StopAll(srv_browser, srv_pool)
    /\ srv_pool' = cleanup_all(srv_pool)
    /\ srv_proc' = [j \in Executions |-> FALSE]
    /\ active_tasks' = active_tasks \ {e}
    /\ UNCHANGED <<session_vars, wu_vars, choice_vars, publish_vars, pace_vars, unit_vars, fb_vars, sel_vars, launched, srv_pc, srv_email>>

InitServer == /\ SessionInit({NoProfiles}, {TRUE}) /\ FbInit /\ SelInit /\ SrvInit
    /\ ChoiceInit({<<>>}) /\ PublishInit({"None"}) /\ WuInit /\ PaceInit /\ UnitInit

NextServer ==
    \/ \E e \in Emails : start_warmup(e)
    \/ \E i \in Executions : ExecStartBrowser(i)
    \/ \E i \in Executions : ExecStartFails(i)
    \/ \E i \in Executions : ExecLeaveSession(i)
    \/ \E i \in Executions : ExecHandler(i)
    \/ \E i \in Executions : ExecFinish(i)
    \/ \E e \in Emails : stop_warmup_endpoint(e)

SpecServer == InitServer /\ [][NextServer]_vars

\* ------------------------------------------- claims checked on SpecServer

\* the browsers that are started and registered in the pool
StartedAndRegistered == {i \in srv_pool : srv_browser[i] = "started"}

\* C8: with executions of warmup_profile_task running concurrently, the
\* browsers that are started and registered in browser_pool.active_browsers
\* are never more than MAX_CONCURRENT_BROWSERS.
C8_PoolWithinLimit == Cardinality(StartedAndRegistered) <= MAX_CONCURRENT_BROWSERS

\* the executions that are inside warmup_profile_task for an email
InProgress(e) ==
    {i \in Executions : srv_email[i] = e /\ srv_pc[i] \in {"session", "handler"}}

\* C19: whatever the interleaving of start requests, stop requests and
\* completions of background tasks, at most one execution of
\* warmup_profile_task is in progress for an email at any time.
C19_OneExecutionPerEmail == \A e \in Emails : Cardinality(InProgress(e)) <= 1

\* ------------------------------------------------ weighted_random_choice

\* the call of weighted_random_choice(action_weights)
WeightedChoice ==
    /\ choice = "pending"
    /\ choice' \in weighted_random_choice(action_weights)
    /\ UNCHANGED <<session_vars, wu_vars, fb_vars, sel_vars, srv_vars, publish_vars, pace_vars, unit_vars,
                   action_weights>>

InitChoice == /\ SessionInit({NoProfiles}, {TRUE}) /\ FbInit /\ SelInit /\ SrvInit
              /\ ChoiceInit(WeightTables) /\ PublishInit({"None"}) /\ WuInit /\ PaceInit /\ UnitInit

NextChoice == WeightedChoice

SpecChoice == InitChoice /\ [][NextChoice]_vars

\* ------------------------------------------- claims checked on SpecChoice

\* C12: weighted_random_choice fails with a ConfigurationError when the
\* mapping is empty or every weight is zero, and otherwise returns a key of
\* the mapping whose weight is greater than zero.
C12_ConfigurationError ==
    choice # "pending" =>
        IF \A a \in DOMAIN action_weights : action_weights[a] = 0
        THEN choice = "ConfigurationError"
        ELSE choice \in DOMAIN action_weights /\ action_weights[choice] > 0

\* ------------------------------------------------------- broadcast_status

\* one call of broadcast_status by the task: it logs, builds the message and
\* publishes it if there is a client
broadcast_status ==
    /\ broadcasts < MaxBroadcasts
    /\ broadcasts' = broadcasts + 1
    /\ delivered' = IF publish(redis_client, redis_up) = "published"
                    THEN delivered + 1 ELSE delivered
    /\ escaped' = (escaped \/ publish(redis_client, redis_up) = "raised")
    /\ UNCHANGED <<session_vars, wu_vars, fb_vars, sel_vars, srv_vars, choice_vars, pace_vars, unit_vars,
                   redis_client, redis_up, task_stats>>

\* the Redis server goes away or comes back
RedisFlap ==
    /\ redis_client = "client"
    /\ redis_up' = ~redis_up
    /\ UNCHANGED <<session_vars, wu_vars, fb_vars, sel_vars, srv_vars, choice_vars, pace_vars, unit_vars,
                   redis_client, task_stats, broadcasts, delivered, escaped>>

\* between two broadcasts the task records a like
TaskLikes ==
    /\ ~escaped
    /\ task_stats.status = "logged_in"
    /\ task_stats.likes < MaxTaskLikes
    /\ task_stats' = [task_stats EXCEPT !.likes = @ + 1]
    /\ UNCHANGED <<session_vars, wu_vars, fb_vars, sel_vars, srv_vars, choice_vars, pace_vars, unit_vars,
                   redis_client, redis_up, broadcasts, delivered, escaped>>

\* between two broadcasts the task moves to its next status; an exception
\* that has left broadcast_status is one more way into the status "error"
TaskStatus ==
    /\ \E next \in TaskStatuses :
          /\ \/ task_stats.status = "started" /\ next \in {"logged_in", "login_failed", "error"}
             \/ task_stats.status = "logged_in" /\ next \in {"completed", "error"}
          /\ escaped => next = "error"
          /\ task_stats' = [task_stats EXCEPT !.status = next]
    /\ UNCHANGED <<session_vars, wu_vars, fb_vars, sel_vars, srv_vars, choice_vars, pace_vars, unit_vars,
                   redis_client, redis_up, broadcasts, delivered, escaped>>

InitPublish == /\ SessionInit({NoProfiles}, {TRUE}) /\ FbInit /\ SelInit /\ SrvInit
               /\ ChoiceInit({<<>>}) /\ PublishInit({"None", "client"}) /\ WuInit /\ PaceInit /\ UnitInit

NextPublish ==
    \/ broadcast_status
    \/ RedisFlap
    \/ TaskLikes
    \/ TaskStatus

SpecPublish == InitPublish /\ [][NextPublish]_vars

\* ------------------------------------------ claims checked on SpecPublish

\* C17: a failure of the publish at a broadcast point neither fails nor
\* alters the session: no exception leaves broadcast_status, and a call
\* leaves the status and the counters of the task as they are, whether the
\* message is published or the publish raises.
C17_PublishNeverFails ==
    [][/\ ~escaped'
       /\ broadcasts' # broadcasts => task_stats' = task_stats]_vars

C17_Witness ==
    /\ broadcasts = MaxBroadcasts
    /\ redis_client = "client"
    /\ delivered = 1
    /\ task_stats.status = "completed"
    /\ task_stats.likes > 0

\* -------------------------------------------------- ProfileWarmUp.run

\* lines 177-180: the session timing is calculated
WuStart ==
    /\ wu_pc = "new"
    /\ session_start_time' = wu_now
    /\ \E d \in Uniform(min_duration_minutes, max_duration_minutes) :
          /\ duration' = d
          /\ session_end_time' = wu_now + d
          /\ planned_end' = wu_now + d
    /\ wu_pc' = "enter_initial"
    /\ UNCHANGED <<session_vars, fb_vars, sel_vars, srv_vars, choice_vars,
                   publish_vars, pace_vars, unit_vars, wu_error, wu_now, original_end, actions_performed, wu_status,
                   wu_scroll>>

\* lines 186-192 and 232-234: the news feed is reached, or the navigation
\* raises, and _main_loop_for_duration(60) shortens session_end_time
WuEnterInitial ==
    /\ wu_pc = "enter_initial"
    /\ \/ /\ original_end' = session_end_time
          /\ session_end_time' =
                 min(wu_now + InitialBrowsingSeconds \div SecondsPerTick, session_end_time)
          /\ wu_pc' = "initial"
       \/ /\ wu_pc' = "except"
          /\ UNCHANGED <<original_end, session_end_time>>
    /\ UNCHANGED <<session_vars, fb_vars, sel_vars, srv_vars, choice_vars,
                   publish_vars, pace_vars, unit_vars, wu_error, wu_now, session_start_time, duration, planned_end,
                   actions_performed, wu_status,
                   wu_scroll>>

\* _execute_action, lines 82-90: the scroller an action of ACTION_WEIGHTS
\* scrolls with; scroll_down and scroll_up use ProfileWarmUp.scroller
scroller_of(a) == IF a \in {"scroll_down", "scroll_up"} THEN "own" ELSE "none"

\* ScrollBehavior.scroll_down and scroll_up: scroll_count += 1 on the
\* object they are called on
scrolled(s, which) == [s EXCEPT ![which] = @ + 1]

\* _get_session_stats and FacebookActions.get_stats: the scroll statistics
\* are those of FacebookActions.scroller
get_stats(s) == [s EXCEPT !.reported = s.fb]

\* lines 131-160: one iteration of _main_loop, in either of its two uses;
\* ensure_on_valid_page catches its exceptions, _execute_action catches the
\* exception of the action, and an exception of the scroll of its handler
\* leaves the loop
WuAction ==
    /\ wu_pc \in {"initial", "main"}
    /\ wu_now < session_end_time
    /\ \E a \in ActionNames, action_raises \in BOOLEAN, scroll_raises \in BOOLEAN :
       LET result == execute_action(action_raises, scroll_raises)
       IN  \/ /\ result = "performed"
              /\ actions_performed < MaxActions
              /\ actions_performed' = actions_performed + 1
              /\ wu_pc' = wu_pc
              /\ IF scroller_of(a) = "none"
                 THEN wu_scroll' = wu_scroll
                 ELSE /\ wu_scroll.own + wu_scroll.fb < MaxWuScrolls
                      /\ wu_scroll' = scrolled(wu_scroll, scroller_of(a))
           \/ /\ result = "skipped"
              /\ wu_scroll.own + wu_scroll.fb < MaxWuScrolls
              /\ wu_scroll' = scrolled(wu_scroll, "own")
              /\ UNCHANGED <<actions_performed, wu_pc>>
           \/ /\ result = "raised"
              /\ wu_pc' = "except"
              /\ UNCHANGED <<actions_performed, wu_scroll>>
    /\ UNCHANGED <<session_vars, fb_vars, sel_vars, srv_vars, choice_vars,
                   publish_vars, pace_vars, unit_vars, wu_error, wu_now, session_start_time, session_end_time,
                   duration, original_end, planned_end, wu_status>>

\* line 236: the loop of the first minute is over and session_end_time is
\* given its original value again
WuLeaveInitial ==
    /\ wu_pc = "initial"
    /\ ~(wu_now < session_end_time)
    /\ session_end_time' = original_end
    /\ original_end' = -1
    /\ wu_pc' = "friend_gate"
    /\ UNCHANGED <<session_vars, fb_vars, sel_vars, srv_vars, choice_vars,
                   publish_vars, pace_vars, unit_vars, wu_error, wu_now, session_start_time, duration, planned_end,
                   actions_performed, wu_status,
                   wu_scroll>>

\* lines 195-201: the friend-suggestions excursion, taken with the
\* configured probability if less than 60% of the duration has elapsed
WuFriendGate ==
    /\ wu_pc = "friend_gate"
    /\ \E r \in RandomDraws :
          IF /\ r < friend_suggestions_probability
             /\ has_time_for_friends(wu_now - session_start_time, duration)
          THEN wu_pc' = "friends"
          ELSE wu_pc' = "main"
    /\ UNCHANGED <<session_vars, fb_vars, sel_vars, srv_vars, choice_vars,
                   publish_vars, pace_vars, unit_vars, wu_error, wu_now, session_start_time, session_end_time,
                   duration, original_end, planned_end, actions_performed, wu_status,
                   wu_scroll>>

\* lines 199-205: friend_suggestions_session and navigate_to_news_feed
\* return, and _main_loop is called, or one of the two raises
WuFriends ==
    /\ wu_pc = "friends"
    /\ wu_pc' \in {"main", "except"}
    /\ \/ wu_scroll' = wu_scroll
       \/ /\ wu_scroll.own + wu_scroll.fb < MaxWuScrolls
          /\ wu_scroll' = scrolled(wu_scroll, "fb")
    /\ UNCHANGED <<session_vars, fb_vars, sel_vars, srv_vars, choice_vars,
                   publish_vars, pace_vars, unit_vars, wu_error, wu_now, session_start_time, session_end_time,
                   duration, original_end, planned_end, actions_performed, wu_status>>

\* line 131 false in the main loop of line 205
WuLeaveMain ==
    /\ wu_pc = "main"
    /\ ~(wu_now < session_end_time)
    /\ wu_pc' = "finish"
    /\ UNCHANGED <<session_vars, fb_vars, sel_vars, srv_vars, choice_vars,
                   publish_vars, pace_vars, unit_vars, wu_error, wu_now, session_start_time, session_end_time,
                   duration, original_end, planned_end, actions_performed, wu_status,
                   wu_scroll>>

\* lines 207-214: the handler of run tries a minimal browsing and swallows
\* what that raises
WuExcept ==
    /\ wu_pc = "except"
    /\ wu_error' = TRUE
    /\ wu_pc' = "finish"
    /\ \/ wu_scroll' = wu_scroll
       \/ /\ wu_scroll.own + wu_scroll.fb < MaxWuScrolls
          /\ wu_scroll' = scrolled(wu_scroll, "own")
    /\ UNCHANGED <<session_vars, fb_vars, sel_vars, srv_vars, choice_vars,
                   publish_vars, pace_vars, unit_vars, wu_now, session_start_time, session_end_time,
                   duration, original_end, planned_end, actions_performed, wu_status>>

\* lines 216-228 and _get_session_stats: the stats are returned
WuReturn ==
    /\ wu_pc = "finish"
    /\ wu_status' = "completed"
    /\ wu_scroll' = get_stats(wu_scroll)
    /\ wu_pc' = "returned"
    /\ UNCHANGED <<session_vars, fb_vars, sel_vars, srv_vars, choice_vars,
                   publish_vars, pace_vars, unit_vars, wu_error, wu_now, session_start_time, session_end_time,
                   duration, original_end, planned_end, actions_performed>>

\* the clock advances while a loop sleeps
WuTick ==
    /\ wu_pc \in {"initial", "main"}
    /\ wu_now < MaxWuTime
    /\ wu_now' = wu_now + 1
    /\ UNCHANGED <<session_vars, fb_vars, sel_vars, srv_vars, choice_vars,
                   publish_vars, pace_vars, unit_vars, wu_error, wu_pc, session_start_time, session_end_time,
                   duration, original_end, planned_end, actions_performed, wu_status,
                   wu_scroll>>

InitWarmup == /\ SessionInit({NoProfiles}, {TRUE}) /\ FbInit /\ SelInit /\ SrvInit
              /\ ChoiceInit({<<>>}) /\ PublishInit({"None"}) /\ WuInit /\ PaceInit /\ UnitInit

NextWarmup ==
    \/ WuStart
    \/ WuEnterInitial
    \/ WuAction
    \/ WuLeaveInitial
    \/ WuFriendGate
    \/ WuFriends
    \/ WuLeaveMain
    \/ WuExcept
    \/ WuReturn
    \/ WuTick

SpecWarmup == InitWarmup /\ [][NextWarmup]_vars

\* ------------------------------------------- claims checked on SpecWarmup

\* C18: the engagement deadline, once computed at the start of the session,
\* keeps the same value in every later state of the session until the
\* session returns (here for session_end_time of ProfileWarmUp).
C18_DeadlineFixed ==
    (planned_end # -1 /\ wu_pc # "returned") => session_end_time = planned_end

\* C26: an exception raised by the chosen action never terminates
\* _main_loop before session_end_time: while the deadline is ahead, no step
\* takes the session out of the loop it is in.
C26_LoopSurvivesActionError ==
    [][(wu_pc \in {"initial", "main"} /\ wu_now < session_end_time) =>
          wu_pc' = wu_pc]_vars

\* C27: the stats run returns carry the status 'completed' exactly for the
\* sessions in which no exception escaped the phases of run.
C27_ErrorStatus ==
    wu_pc = "returned" => (wu_status = "completed" <=> ~wu_error)

\* C28: once the session has left the engagement loop for the
\* friend-suggestions excursion, the engagement loop is not entered again.
C28_LoopNotReentered ==
    [][wu_pc = "friends" => wu_pc' \notin {"initial", "main"}]_vars

\* C35: the scroll_count of the stats run returns accounts for every scroll
\* of the session: those of the scroll_down and scroll_up actions of the
\* main loop and those issued inside FacebookActions.
C35_AllScrollsCounted ==
    wu_pc = "returned" =>
        wu_scroll.reported = wu_scroll.own + wu_scroll.fb

\* C24: concurrent sessions are isolated: the started browser of an
\* execution that is and stays inside its session is stopped by a step only
\* if the step is a /warmup/stop request for the email of that execution or
\* the error handler of an execution of the same email.
C24_SessionsIsolated ==
    [][\A j \in Executions :
          (/\ srv_pc[j] = "session" /\ srv_pc'[j] = "session"
           /\ srv_browser[j] = "started" /\ srv_browser'[j] = "stopped")
          => \/ srv_email[j] \in active_tasks \ active_tasks'
             \/ \E i \in Executions :
                   /\ srv_pc[i] = "handler" /\ srv_pc'[i] = "finish"
                   /\ srv_email[i] = srv_email[j]]_vars

\* ------------------------- the pace of warmup_profile_task, in seconds

\* the profile of the session of SpecPace
PaceProfile == QuickProfile["quick"]

\* the time between the action recorded at t and the one before it
Since(last, t) == IF last = -1 THEN -1 ELSE t - last

\* lines 325-328, 343: an iteration that selected "scroll"; an exception of
\* scroll_page ends the iteration at once (line 359)
PaceScroll ==
    /\ pace_pc = "engaging"
    /\ before_deadline(pace_now, MaxPaceTime)
    /\ \/ \E d \in Uniform(1, 3) : pace_now' = pace_now + d
       \/ pace_now' = pace_now
    /\ UNCHANGED <<session_vars, fb_vars, sel_vars, srv_vars, choice_vars,
                   publish_vars, wu_vars, unit_vars, pace_pc, pace_stats, pace_loop,
                   pace_friends>>

\* lines 330-338, 343: an iteration that selected "like": like_post clicks
\* and sleeps 2 to 5 seconds, or returns None; the iteration ends with a
\* delay of 1 to 3 seconds
PaceLike ==
    /\ pace_pc = "engaging"
    /\ before_deadline(pace_now, MaxPaceTime)
    /\ \E d1 \in Uniform(2, 5), d2 \in Uniform(1, 3) :
          \/ /\ CanLike(pace_loop.likes_this_session, PaceProfile.max_likes)
             /\ pace_stats' = record_like(pace_stats, "post")
             /\ pace_loop' = [likes_this_session |-> pace_loop.likes_this_session + 1,
                              posts_returned |-> pace_loop.posts_returned + 1,
                              last_like |-> pace_now,
                              like_gap |-> Since(pace_loop.last_like, pace_now)]
             /\ pace_now' = pace_now + d1 + d2
          \/ /\ pace_now' = pace_now + d2
             /\ UNCHANGED <<pace_stats, pace_loop>>
    /\ UNCHANGED <<session_vars, fb_vars, sel_vars, srv_vars, choice_vars,
                   publish_vars, wu_vars, unit_vars, pace_pc, pace_friends>>

\* lines 340-343: an iteration that selected "pause"
PacePause ==
    /\ pace_pc = "engaging"
    /\ before_deadline(pace_now, MaxPaceTime)
    /\ \E d1 \in Uniform(2, 5), d2 \in Uniform(1, 3) : pace_now' = pace_now + d1 + d2
    /\ UNCHANGED <<session_vars, fb_vars, sel_vars, srv_vars, choice_vars,
                   publish_vars, wu_vars, unit_vars, pace_pc, pace_stats, pace_loop,
                   pace_friends>>

\* line 315 false and the gate of line 366
PaceLoopExit ==
    /\ pace_pc = "engaging"
    /\ ~before_deadline(pace_now, MaxPaceTime)
    /\ \E r \in RandomDraws :
          pace_pc' = IF r < PaceProfile.friend_probability THEN "suggestions"
                     ELSE "returned"
    /\ pace_loop' = [pace_loop EXCEPT !.last_like = -1, !.like_gap = -1]
    /\ UNCHANGED <<session_vars, fb_vars, sel_vars, srv_vars, choice_vars,
                   publish_vars, wu_vars, unit_vars, pace_now, pace_stats, pace_friends>>

\* lines 372-376: visit_friend_suggestions has returned friends_list
PaceReturn(friends_list) ==
    /\ pace_stats' = [pace_stats EXCEPT !.friend_requests = Len(friends_list),
                                        !.friends_requested = friends_list]
    /\ pace_pc' = "returned"

\* lines 628-646: navigation, scrolling, button discovery and the target;
\* an exception ends visit_friend_suggestions with the empty list
PaceVisit ==
    /\ pace_pc = "suggestions"
    /\ \/ /\ \E d \in Uniform(3, 5), n \in 0..MaxButtons,
                t \in randint(min_friend_requests, max_friend_requests) :
                /\ pace_now' = pace_now + d
                /\ pace_friends' = [NoRequests EXCEPT !.buttons = n, !.target = t]
          /\ pace_pc' = "requests"
          /\ UNCHANGED pace_stats
       \/ /\ PaceReturn(<<>>)
          /\ UNCHANGED <<pace_now, pace_friends>>
    /\ UNCHANGED <<session_vars, fb_vars, sel_vars, srv_vars, choice_vars,
                   publish_vars, wu_vars, unit_vars, pace_loop>>

\* lines 648-680: one button of visible_buttons[:target]; after a click the
\* request is recorded and the code sleeps human_delay(wait_time - 10,
\* wait_time + 10) with wait_time = random.randint(60, 120)
PaceRequest ==
    /\ pace_pc = "requests"
    /\ pace_friends.index < SliceLen(pace_friends.buttons, pace_friends.target)
    /\ \E r \in RandomDraws :
       \/ /\ r < SendChance
          /\ \E wait_time \in randint(60, 120) :
             \E d \in Uniform(wait_time - 10, wait_time + 10) :
                /\ pace_friends' =
                       [pace_friends EXCEPT
                           !.index = @ + 1,
                           !.friends_requested = Append(@, "name"),
                           !.last_request = pace_now,
                           !.request_gap = Since(pace_friends.last_request, pace_now)]
                /\ pace_now' = pace_now + d
       \/ /\ pace_friends' = [pace_friends EXCEPT !.index = @ + 1]
          /\ pace_now' = pace_now
    /\ UNCHANGED <<session_vars, fb_vars, sel_vars, srv_vars, choice_vars,
                   publish_vars, wu_vars, unit_vars, pace_pc, pace_stats, pace_loop>>

\* lines 682-691 and 372-376: back to the feed and return of the list
PaceFriendsReturn ==
    /\ pace_pc = "requests"
    /\ ~(pace_friends.index < SliceLen(pace_friends.buttons, pace_friends.target))
    /\ \/ \E d \in Uniform(2, 4) : pace_now' = pace_now + d
       \/ pace_now' = pace_now
    /\ PaceReturn(pace_friends.friends_requested)
    /\ UNCHANGED <<session_vars, fb_vars, sel_vars, srv_vars, choice_vars,
                   publish_vars, wu_vars, unit_vars, pace_loop, pace_friends>>

InitPace == /\ SessionInit({NoProfiles}, {TRUE}) /\ FbInit /\ SelInit /\ SrvInit
            /\ ChoiceInit({<<>>}) /\ PublishInit({"None"}) /\ WuInit /\ PaceInit /\ UnitInit

NextPace ==
    \/ PaceScroll
    \/ PaceLike
    \/ PacePause
    \/ PaceLoopExit
    \/ PaceVisit
    \/ PaceRequest
    \/ PaceFriendsReturn

SpecPace == InitPace /\ [][NextPace]_vars

\* --------------------------------------------- claims checked on SpecPace

\* C21: two consecutive successful likes of one session are separated by at
\* least min_time_between_likes seconds.
C21_LikesSpaced ==
    pace_loop.like_gap # -1 => pace_loop.like_gap >= min_time_between_likes

\* C22: two consecutive friend requests of one session are separated by at
\* least min_time_between_requests seconds.
C22_RequestsSpaced ==
    pace_friends.request_gap # -1 =>
        pace_friends.request_gap >= min_time_between_requests

\* C30: stats.likes is the number of records of stats.liked_posts and the
\* number of like_post calls that returned a post, in every state; in the
\* returned result friend_requests is the number of records of
\* friends_requested.
C30_CountersMatchRecords ==
    /\ pace_stats.likes = Len(pace_stats.liked_posts)
    /\ pace_stats.likes = pace_loop.posts_returned
    /\ pace_pc = "returned" =>
           pace_stats.friend_requests = Len(pace_stats.friends_requested)

C30_Witness ==
    /\ pace_pc = "returned"
    /\ pace_stats.likes = 2
    /\ pace_stats.friend_requests = 2
    /\ pace_friends.index = 3

\* ------------------------------------- further claims checked on Spec

\* C31: warmup_profile_task has status "completed" only if the login
\* succeeded, the scrolling loop was left at or after session_end, the
\* pre-logout loop was left at or after delay_end and, with perform_logout
\* enabled, logout_from_facebook was called; "completed" is only set from
\* "logged_in", at the end of the logout phase.
C31_CompletedMeansAllPhases ==
    /\ [](stats.status = "completed" =>
            /\ login_result = "success"
            /\ session_end # -1 /\ ~(now < session_end)
            /\ delay_end # -1 /\ ~(now < delay_end)
            /\ "idle" \in ops
            /\ perform_logout => "logout" \in ops)
    /\ [][(pc = "engaging" /\ pc' = "friend_gate") => ~(now < session_end)]_vars
    /\ [][(stats.status # "completed" /\ stats'.status = "completed") =>
            (pc = "logout" /\ stats.status = "logged_in")]_vars

C31_Witness ==
    /\ pc = "returned"
    /\ stats.status = "completed"
    /\ login_result = "success"
    /\ perform_logout
    /\ logout_result = "failed"
    /\ "friends" \notin ops
    /\ delay_end > session_end
    /\ now = delay_end

\* C32: the logout phase is never entered before delay_end; while the
\* deadline lies ahead the session stays in the pre-logout loop, whose every
\* iteration calls scroll_page (an exception of it goes to the handler);
\* once the deadline has passed no further iteration is started and the
\* loop is only left for the logout phase.
C32_IdleRunsToDeadline ==
    /\ [](pc = "logout" => (delay_end # -1 /\ ~(now < delay_end)))
    /\ [][(pc = "idle" /\ now < delay_end) => pc' \in {"idle", "handler"}]_vars
    /\ [][(pc = "idle" /\ ~(now < delay_end)) => pc' \in {"idle", "logout"}]_vars

C32_Witness ==
    /\ pc = "logout"
    /\ ~perform_logout
    /\ now = delay_end
    /\ delay_end > session_end
    /\ browser = "started"

\* C36: a session performs no action once more than WARMUP_TIMEOUT seconds
\* have passed since its browser started: in no phase that acts on the page
\* (scrolling loop, friend suggestions, pre-logout loop, logout) does
\* is_timeout hold, for every selectable session profile.
C36_EndsByTimeout ==
    pc \in {"engaging", "friend_gate", "friends_nav", "friends_find",
            "friends_loop", "idle", "logout"} => ~is_timeout(now)

\* ------------------------------------ PlaywrightBrowser.start and stop

\* the statements of one launch attempt that can raise, and "none" for an
\* attempt that raises nowhere
FailPoints == {"none", "sync_playwright", "launch", "new_page", "page_setup"}

\* lines 207-244: the fields an attempt has assigned when it raises at
\* `fail`, or when it ends
try_attempt(fail) ==
    [r \in DOMAIN NoFields |->
        CASE fail = "sync_playwright" -> FALSE
          [] fail = "launch" -> r = "playwright"
          [] fail = "new_page" -> r \in {"playwright", "browser"}
          [] OTHER -> TRUE]

\* lines 283-289: the resources whose close (stop for the driver) is invoked
\* by stop from the i-th resource on; the resources of `raises` raise when
\* closed, which ends the try block
RECURSIVE stop_closes(_, _, _)
stop_closes(f, raises, i) ==
    IF i > Len(Resources) THEN {}
    ELSE LET r == Resources[i] IN
         IF ~f[r] THEN stop_closes(f, raises, i + 1)
         ELSE IF r \in raises THEN {r}
         ELSE {r} \cup stop_closes(f, raises, i + 1)

\* a stop whose finally clause leaves the fields as they are
stop_finally_Keep(f) == f

\* lines 293-296: the finally clause of stop
stop_finally(f) == NoFields

\* lines 281-296: stop; the except clause catches what a close raises
stop(raises) ==
    /\ pw_stop' = [called |-> TRUE,
                   had |-> {r \in DOMAIN pw_fields : pw_fields[r]},
                   closed |-> stop_closes(pw_fields, raises, 1),
                   raised |-> FALSE]
    /\ pw_fields' = stop_finally(pw_fields)

\* browser_session, line 572: start is called on the new object
PwStart ==
    /\ pw_pc = "idle"
    /\ pw_result = "none"
    /\ ~pw_stop.called
    /\ \E n \in 0..MaxRetries : pw_max_retries' = n
    /\ pw_attempts' = 0
    /\ pw_pc' = "attempt"
    /\ UNCHANGED <<other_vars, pure_vars, pw_fields, pw_result, pw_stop>>

\* lines 201-263: the try block of one attempt
PwAttempt ==
    /\ pw_pc = "attempt"
    /\ pw_attempts < pw_max_retries
    /\ \E fail \in FailPoints :
          /\ pw_fields' = try_attempt(fail)
          /\ IF fail = "none"
             THEN pw_result' = "page" /\ pw_pc' = "idle"
             ELSE pw_result' = pw_result /\ pw_pc' = "except"
    /\ UNCHANGED <<other_vars, pure_vars, pw_max_retries, pw_attempts, pw_stop>>

\* lines 265-277: the handler of a failed attempt
PwExcept ==
    /\ pw_pc = "except"
    /\ \E raises \in SUBSET DOMAIN NoFields : stop(raises)
    /\ pw_attempts' = pw_attempts + 1
    /\ pw_pc' = "attempt"
    /\ UNCHANGED <<other_vars, pure_vars, pw_max_retries, pw_result>>

\* line 279: the loop is over without a return
PwRaise ==
    /\ pw_pc = "attempt"
    /\ ~(pw_attempts < pw_max_retries)
    /\ pw_result' = "raised"
    /\ pw_pc' = "idle"
    /\ UNCHANGED <<other_vars, pure_vars, pw_fields, pw_max_retries, pw_attempts, pw_stop>>

\* stop called after start: by the finally of browser_session (line 580),
\* by BrowserPool.cleanup_all (line 548), by quit (line 461)
PwStop ==
    /\ pw_pc = "idle"
    /\ pw_result # "none"
    /\ \E raises \in SUBSET DOMAIN NoFields : stop(raises)
    /\ UNCHANGED <<other_vars, pure_vars, pw_pc, pw_max_retries, pw_attempts, pw_result>>

InitBrowser == /\ SessionInit({NoProfiles}, {TRUE}) /\ FbInit /\ SelInit /\ SrvInit
               /\ ChoiceInit({<<>>}) /\ PublishInit({"None"}) /\ WuInit /\ PaceInit /\ UnitInit

NextBrowser ==
    \/ PwStart
    \/ PwAttempt
    \/ PwExcept
    \/ PwRaise
    \/ PwStop

SpecBrowser == InitBrowser /\ [][NextBrowser]_vars

\* ------------------------------------------ claims checked on SpecBrowser

\* C33: start makes at most max_retries attempts; the first attempt that
\* raises nowhere ends start with the page, all three fields set; every
\* attempt, the first one included, begins with page, browser and playwright
\* None, because the handler of a failed attempt calls stop; after
\* max_retries failed attempts start raises with the three fields None.
C33_StartRetries ==
    /\ [](pw_attempts <= pw_max_retries)
    /\ [](pw_pc = "attempt" => pw_fields = NoFields)
    /\ [](pw_result = "page" => pw_attempts < pw_max_retries)
    /\ [](pw_result = "raised" =>
            (pw_attempts = pw_max_retries /\ pw_fields = NoFields))
    /\ [][(pw_result = "none" /\ pw_result' = "page") =>
            (pw_attempts' = pw_attempts /\ pw_fields' = try_attempt("none"))]_vars
    /\ [][(pw_pc = "except") => (pw_pc' = "attempt" /\ pw_stop'.called)]_vars

C33_Witness ==
    /\ pw_result = "raised"
    /\ pw_max_retries >= 2
    /\ pw_attempts = pw_max_retries
    /\ pw_stop.had = {"playwright", "browser"}
    /\ pw_fields = NoFields

\* C34: after stop has returned, the close of every resource that was not
\* None has been invoked, also when an earlier close raised; stop lets no
\* exception out; a stop that finds the three fields None closes nothing.
C34_StopClosesAll ==
    pw_stop.called =>
        /\ pw_stop.had \subseteq pw_stop.closed
        /\ ~pw_stop.raised
        /\ pw_stop.had = {} => pw_stop.closed = {}

\* ------------------------------------------------- the probability gates

\* facebook_actions.py lines 246, 365, 482: the action is skipped when
\* random.random() > probability, and goes on otherwise
passes_skip_gate(r, p) == ~(r > p)

\* tasks.py line 366: the excursion is taken when
\* random.random() < friend_probability
passes_enter_gate(r, p) == r < p

\* like_post, comment_on_post and watch_video evaluate their gate
GateFacebookActions ==
    /\ \E g \in {"like", "comment", "video"}, p \in 0..Grain, r \in 0..(Grain - 1) :
          gate_call' = [gate |-> g, probability |-> p, draw |-> r,
                        acted |-> passes_skip_gate(r, p)]
    /\ UNCHANGED <<other_vars, pw_vars, feed_call, login_call>>

\* warmup_profile_task evaluates the friend-suggestions gate
GateFriendSuggestions ==
    /\ \E p \in 0..Grain, r \in 0..(Grain - 1) :
          gate_call' = [gate |-> "friend_suggestions", probability |-> p,
                        draw |-> r, acted |-> passes_enter_gate(r, p)]
    /\ UNCHANGED <<other_vars, pw_vars, feed_call, login_call>>

InitGates == /\ SessionInit({NoProfiles}, {TRUE}) /\ FbInit /\ SelInit /\ SrvInit
             /\ ChoiceInit({<<>>}) /\ PublishInit({"None"}) /\ WuInit /\ PaceInit /\ UnitInit

NextGates == GateFacebookActions \/ GateFriendSuggestions

SpecGates == InitGates /\ [][NextGates]_vars

\* -------------------------------------------- claims checked on SpecGates

\* C37: for every draw of [0, 1), a gate whose probability is 0 never lets
\* its action go on and a gate whose probability is 1 never skips it; this
\* for the like, comment and video gates and the friend-suggestions gate.
C37_GateBoundaries ==
    gate_call.gate # "none" =>
        /\ gate_call.probability = 0 => ~gate_call.acted
        /\ gate_call.probability = Grain => gate_call.acted

\* --------------------------------------------------------- ensure_on_feed

\* the origin of the feed
FeedOrigin == "https://www.facebook.com"

\* the origins driver.current_url can begin with
Origins == {FeedOrigin, "https://m.facebook.com", "http://www.facebook.com"}

\* the characters after the origin: "x" and "X" stand for the letters
TailChars == {"/", "?", "#", "x", "X"}

\* the URLs of the model: an origin and up to MaxTail characters
Urls == {<<o>> \o t : o \in Origins,
                      t \in UNION {[1..n -> TailChars] : n \in 0..MaxTail}}

\* str.lower()
lower(url) == [i \in DOMAIN url |-> IF url[i] = "X" THEN "x" ELSE url[i]]

\* str.startswith(prefix)
startswith(str, prefix) ==
    /\ Len(str) >= Len(prefix)
    /\ SubSeq(str, 1, Len(prefix)) = prefix

\* a test that takes every URL of the origin for the feed
is_on_feed_AnyPath(current_url) == startswith(current_url, <<FeedOrigin>>)

\* lines 158-163, on the lowered URL
is_on_feed(current_url) ==
    \/ current_url = <<FeedOrigin, "/">>
    \/ current_url = <<FeedOrigin>>
    \/ startswith(current_url, <<FeedOrigin, "/", "?">>)
    \/ startswith(current_url, <<FeedOrigin, "/", "#">>)

\* ensure_on_feed, lines 153-183: the navigations it issues and the value
\* it returns; an exception of the property current_url, or of driver.get,
\* is handled by a second driver.get whose exception is swallowed
ensure_on_feed(read_ok, url, get_raises) ==
    IF ~read_ok
    THEN [navigations |-> 1, result |-> TRUE, raised |-> FALSE]
    ELSE IF ~is_on_feed(lower(url))
         THEN [navigations |-> IF get_raises THEN 2 ELSE 1,
               result |-> TRUE, raised |-> FALSE]
         ELSE [navigations |-> 0, result |-> FALSE, raised |-> FALSE]

\* the scrolling loop calls ensure_on_feed; the calls share no state, so
\* one call is followed from each input
FeedCheck ==
    /\ ~feed_call.called
    /\ \E read_ok \in BOOLEAN, url \in Urls, get_raises \in BOOLEAN :
          /\ ~read_ok => url = <<FeedOrigin>>
          /\ LET r == ensure_on_feed(read_ok, url, get_raises)
             IN  feed_call' = [called |-> TRUE, read_ok |-> read_ok, url |-> url,
                               navigations |-> r.navigations,
                               result |-> r.result, raised |-> r.raised]
    /\ UNCHANGED <<other_vars, pw_vars, gate_call, login_call>>

InitFeed == /\ SessionInit({NoProfiles}, {TRUE}) /\ FbInit /\ SelInit /\ SrvInit
            /\ ChoiceInit({<<>>}) /\ PublishInit({"None"}) /\ WuInit /\ PaceInit /\ UnitInit

NextFeed == FeedCheck

SpecFeed == InitFeed /\ [][NextFeed]_vars

\* --------------------------------------------- claims checked on SpecFeed

\* C38: ensure_on_feed never raises; it navigates to the feed exactly when
\* the URL could not be read or is not https://www.facebook.com followed by
\* nothing, by "/", by "/?..." or by "/#..."; it returns True exactly when
\* it has navigated, and False, without a navigation, when on the feed.
C38_FeedRedirect ==
    feed_call.called =>
        LET u == feed_call.url
            on_feed == /\ feed_call.read_ok
                       /\ u[1] = FeedOrigin
                       /\ \/ Len(u) = 1
                          \/ u[2] = "/" /\ (Len(u) = 2 \/ u[3] \in {"?", "#"})
        IN  /\ ~feed_call.raised
            /\ (feed_call.navigations > 0) <=> ~on_feed
            /\ feed_call.result <=> ~on_feed

C38_Witness ==
    /\ feed_call.called
    /\ feed_call.read_ok
    /\ Len(feed_call.url) = 4
    /\ feed_call.url[3] = "?"
    /\ feed_call.url[4] = "X"
    /\ ~feed_call.result
    /\ feed_call.navigations = 0

\* ------------------------------- FacebookLogin.login: the login button

\* what one selector of login_selectors meets: query_selector returns None,
\* a hidden element or a visible one, or raises, or is_visible raises
Lookups == {"none", "hidden", "visible", "query_raises", "visibility_raises"}

\* login.py lines 127-135: login_button after the loop over the selectors
\* from the i-th on; 0 stands for None, an index for the element of that
\* selector. A raise of query_selector leaves login_button as it was
RECURSIVE find_login_button(_, _, _)
find_login_button(page, i, login_button) ==
    IF i > Len(page) THEN login_button
    ELSE IF page[i] = "query_raises" THEN find_login_button(page, i + 1, login_button)
    ELSE IF page[i] = "none" THEN find_login_button(page, i + 1, 0)
    ELSE IF page[i] = "visible" THEN i
    ELSE find_login_button(page, i + 1, i)

\* lines 137-144: click of login_button, or Enter when it is None; login
\* submits the form once
LoginSubmit ==
    /\ login_call.how = "none"
    /\ \E page \in [1..MaxSelectors -> Lookups] :
          LET login_button == find_login_button(page, 1, 0)
          IN  login_call' = [page |-> page, button |-> login_button,
                             how |-> IF login_button # 0 THEN "click" ELSE "enter"]
    /\ UNCHANGED <<other_vars, pw_vars, gate_call, feed_call>>

InitLoginButton == /\ SessionInit({NoProfiles}, {TRUE}) /\ FbInit /\ SelInit /\ SrvInit
                   /\ ChoiceInit({<<>>}) /\ PublishInit({"None"}) /\ WuInit /\ PaceInit /\ UnitInit

NextLoginButton == LoginSubmit

SpecLoginButton == InitLoginButton /\ [][NextLoginButton]_vars

\* -------------------------------------- claims checked on SpecLoginButton

\* C39: the button clicked is the element of the first selector, in the
\* listed order, whose element is visible; when no selector yields a visible
\* element nothing is clicked and the form is submitted with Enter.
C39_VisibleButtonClicked ==
    login_call.how # "none" =>
        LET visible == {i \in DOMAIN login_call.page : login_call.page[i] = "visible"}
        IN  IF visible = {}
            THEN login_call.how = "enter"
            ELSE /\ login_call.how = "click"
                 /\ login_call.button \in visible
                 /\ \A i \in visible : login_call.button <= i

====
